---- MODULE Spec2Model ----
(***************************************************************************)
(* Model of the discrete-event simulation engine of sim-native/des         *)
(* (resource pools, demand generation, the event loop of                   *)
(* run_simulation_internal_ref and its finalization).                      *)
(*                                                                         *)
(* Times and durations are hours.  The code holds them in f64; the model   *)
(* holds them as integers with exact arithmetic.  Utilization is a         *)
(* fraction, carried as numerator/denominator and rounded to thousandths   *)
(* the way the code rounds it.                                             *)
(***************************************************************************)
EXTENDS Integers, Sequences, FiniteSets, TLC

VARIABLES
    pc,          \* position in run_simulation_internal_ref / of the pool driver
    scenario,    \* the Scenario argument
    options,     \* the Options argument (state snapshot, overrides)
    initial,     \* InitialResources after overrides
    events,      \* the list returned by generate_demand
    idx,         \* enumerate() index of the next event (1-based here)
    unit_list,   \* pools.keys() collected into a Vec
    pools,       \* HashMap<String, UnitPools>
    results,     \* Results under construction
    options2,    \* second run: its Options
    events2,     \* second run: its demand events
    unit_list2,  \* second run: its unit list
    pools2,      \* second run: its pools
    results2,    \* second run: its Results
    pool,        \* a lone ResourcePool driven by arbitrary calls
    ret,         \* what the last call on the lone pool returned
    ops,         \* number of calls made on the lone pool
    accepted,    \* the try_acquire calls on the lone pool that returned true
    hasher,      \* the two hashes of DefaultHasher::new(), per reservoir count
    fed,         \* values fed so far to a lone StreamingStatistics
    stats,       \* the lone StreamingStatistics
    stat_out,    \* what finalize returned for it
    mc_options,  \* the MonteCarloOptions argument
    iterations,  \* options.iterations.unwrap_or(..)
    keep_iterations, \* options.keep_iterations.unwrap_or(false)
    remaining,        \* items of (0..iterations) not yet handed to a worker
    workers,     \* per pool thread: where it is in the task closure, its item, its Results
    locks,       \* owner of each of the three mutexes
    aggregator,  \* the shared StreamingAggregator
    first_result,   \* the shared Option<Results>
    stored_results, \* the shared Vec<Results>
    task_errors, \* items whose task returned Err
    mc_out,      \* what run_monte_carlo_internal returned
    draw,        \* unit selection alone: the split, the unit list, the index, the draw
    selected     \* unit selection alone: the unit picked

vars == << pc, scenario, options, initial, events, idx, unit_list, pools,
           results, options2, events2, unit_list2, pools2, results2, pool, ret, ops, accepted,
           hasher, fed, stats, stat_out, mc_options, iterations, keep_iterations,
           remaining, workers, locks, aggregator, first_result, stored_results,
           task_errors, mc_out, draw, selected >>

desVars  == << scenario, options, initial, events, idx, unit_list, pools, results >>
run2Vars == << options2, events2, unit_list2, pools2, results2 >>
poolVars == << pool, ret, ops, accepted >>
statVars == << hasher, fed, stats, stat_out >>
mcVars   == << mc_options, iterations, keep_iterations, remaining, workers, locks,
               aggregator, first_result, stored_results, task_errors, mc_out >>
pickVars == << draw, selected >>

(***************************************************************************)
(* Bounds of the model.                                                    *)
(***************************************************************************)
MaxDur == 2            \* a sampled (non-deterministic) duration is in 0..MaxDur
MaxPoisson == 2        \* at most this many arrivals of one Poisson demand
PoolMaxTime == 2       \* lone pool: call times are in 0..PoolMaxTime
PoolMaxDur == 2        \* lone pool: durations are in 0..PoolMaxDur
PoolMaxCount == 2      \* lone pool: counts are in 0..PoolMaxCount
PoolMaxTotal == 2      \* lone pool: capacity is in 0..PoolMaxTotal
PoolMaxOps == 3        \* lone pool: number of calls

None == "none"         \* a string field that is absent

\* Option<T> of a number, map or struct: the empty list, or a list of one.
NoneOpt == << >>
Some(x) == << x >>
IsSome(o) == Len(o) > 0
Unwrap(o) == o[1]

(***************************************************************************)
(* Sequence helpers.                                                       *)
(***************************************************************************)
RECURSIVE SumSeq(_)
SumSeq(s) == IF s = << >> THEN 0 ELSE Head(s) + SumSeq(Tail(s))

Repeat(x, n) == [k \in 1..n |-> x]

IsSorted(s) == \A k \in 1..(Len(s) - 1) : s[k] <= s[k + 1]

Min2(a, b) == IF a <= b THEN a ELSE b

(***************************************************************************)
(* ResourcePool                                                            *)
(***************************************************************************)
NEG_INFINITY == -1000     \* below every time of the model (times are >= 0)

ResourcePoolNew(total) ==
    [ total |-> total, held |-> << >>, busy_time |-> 0,
      allocations |-> 0, denials |-> 0, last_cleanup_time |-> NEG_INFINITY ]

\* slice::partition_point(|t| t <= x): the index of the first element for
\* which the predicate is false (0-based), on a list partitioned by it.
RECURSIVE PartitionPoint(_, _)
PartitionPoint(held, x) ==
    IF held = << >> \/ ~(Head(held) <= x) THEN 0
    ELSE 1 + PartitionPoint(Tail(held), x)

\* saturating_sub on u32
SaturatingSub(a, b) == IF a >= b THEN a - b ELSE 0

\* The pool after available_at(time).
CleanupNoSkip(p, time) ==
    [p EXCEPT !.held = SubSeq(p.held, PartitionPoint(p.held, time) + 1, Len(p.held)),
              !.last_cleanup_time = time]

\* a cleanup that keeps the release times equal to `time`
CleanupKeepEqual(p, time) ==
    IF time > p.last_cleanup_time
    THEN [p EXCEPT !.held = SubSeq(p.held, PartitionPoint(p.held, time - 1) + 1, Len(p.held)),
                   !.last_cleanup_time = time]
    ELSE p

Cleanup(p, time) ==
    IF time > p.last_cleanup_time
    THEN [p EXCEPT !.held = SubSeq(p.held, PartitionPoint(p.held, time) + 1, Len(p.held)),
                   !.last_cleanup_time = time]
    ELSE p

\* available_at: the pool it leaves and the value it returns.
available_at(p, time) ==
    LET q == Cleanup(p, time)
    IN  [ pool |-> q, avail |-> SaturatingSub(q.total, Len(q.held)) ]

InsertAt(s, pos, x, count) ==
    SubSeq(s, 1, pos) \o Repeat(x, count) \o SubSeq(s, pos + 1, Len(s))

\* try_acquire: the pool it leaves and the value it returns.
try_acquire_unchecked(p, time, duration_hours, count) ==
    LET a == available_at(p, time)
        q == a.pool
        release_time == time + duration_hours
        insert_pos == PartitionPoint(q.held, release_time)
    IN  [ pool |-> [q EXCEPT !.held = InsertAt(q.held, insert_pos, release_time, count),
                             !.allocations = @ + count,
                             !.busy_time = @ + duration_hours * count],
          ok |-> TRUE ]

\* a try_acquire that does not count its denials
try_acquire_uncounted(p, time, duration_hours, count) ==
    LET a == available_at(p, time)
        q == a.pool
        release_time == time + duration_hours
        insert_pos == PartitionPoint(q.held, release_time)
    IN  IF a.avail >= count
        THEN [ pool |-> [q EXCEPT !.held = InsertAt(q.held, insert_pos, release_time, count),
                                  !.allocations = @ + count,
                                  !.busy_time = @ + duration_hours * count],
               ok |-> TRUE ]
        ELSE [ pool |-> q, ok |-> FALSE ]

try_acquire(p, time, duration_hours, count) ==
    LET a == available_at(p, time)
        q == a.pool
        release_time == time + duration_hours
        insert_pos == PartitionPoint(q.held, release_time)
    IN  IF a.avail >= count
        THEN [ pool |-> [q EXCEPT !.held = InsertAt(q.held, insert_pos, release_time, count),
                                  !.allocations = @ + count,
                                  !.busy_time = @ + duration_hours * count],
               ok |-> TRUE ]
        ELSE [ pool |-> [q EXCEPT !.denials = @ + count], ok |-> FALSE ]

\* utilization(horizon) as a fraction num/den (den > 0).
utilization_uncapped(p, horizon_hours) ==
    IF p.total = 0 \/ horizon_hours <= 0
    THEN [ num |-> 0, den |-> 1 ]
    ELSE [ num |-> p.busy_time, den |-> p.total * horizon_hours ]

utilization(p, horizon_hours) ==
    IF p.total = 0 \/ horizon_hours <= 0
    THEN [ num |-> 0, den |-> 1 ]
    ELSE [ num |-> Min2(p.busy_time, p.total * horizon_hours),
           den |-> p.total * horizon_hours ]

\* (x * 1000.0).round() / 1000.0, in thousandths; round() is half away from
\* zero and x >= 0 here.
Round3(x) == (2000 * x.num + x.den) \div (2 * x.den)

(***************************************************************************)
(* Partial maps (HashMap): functions whose DOMAIN is the key set.          *)
(***************************************************************************)
EmptyMap == [k \in {} |-> 0]

Get(m, k, default) == IF k \in DOMAIN m THEN m[k] ELSE default

Put(m, k, v) == [x \in (DOMAIN m) \cup {k} |-> IF x = k THEN v ELSE m[x]]

CountRows(rows, P(_)) == Cardinality({k \in DOMAIN rows : P(rows[k])})

SeqRange(s) == {s[k] : k \in DOMAIN s}

(***************************************************************************)
(* derive_initial_from_state.  A State is its four tables, each a list of  *)
(* rows; a field a row lacks (or that is no string) is None.               *)
(* InitialResources.units is a Vec filled from a HashSet: only membership  *)
(* in it is ever read, so it is held as a set.                             *)
(***************************************************************************)
CrewCountsZero == [ pilot |-> 0, so |-> 0 ]

derive_initial_from_state(state) ==
    LET fmc(u)   == CountRows(state.v_aircraft,
                        LAMBDA r : r.Status = "FMC" /\ r.Unit = u)
        acUnits  == {r.Unit : r \in {x \in SeqRange(state.v_aircraft) :
                                        x.Status = "FMC" /\ x.Unit # None}}
        pUnit(r) == IF r.Unit = None THEN "UNKNOWN" ELSE r.Unit
        pRows    == {x \in SeqRange(state.v_payload) : x.Type # None}
        plUnits  == {pUnit(r) : r \in pRows}
        plTypes(u) == {r.Type : r \in {x \in pRows : pUnit(x) = u}}
        sRows    == {x \in SeqRange(state.v_staffing) :
                        x.UnitName # None /\ x.MOS # None}
        crUnits  == {r.UnitName : r \in sRows}
        mos(u, m) == CountRows(state.v_staffing,
                        LAMBDA r : r.UnitName = u /\ r.MOS = m)
        declared == {r.Unit : r \in {x \in SeqRange(state.v_unit) : x.Unit # None}}
    IN  [ units |-> declared \cup acUnits \cup plUnits \cup crUnits,
          aircraft_by_unit |-> [u \in acUnits |-> fmc(u)],
          crew_by_unit |-> [u \in crUnits |->
                               [ pilot |-> mos(u, "7318"), so |-> mos(u, "7314") ]],
          payload_by_unit |-> [u \in plUnits |-> [t \in plTypes(u) |->
                                  CountRows(state.v_payload,
                                      LAMBDA r : r.Type = t /\ pUnit(r) = u)]],
          overrides_applied |-> FALSE ]

(***************************************************************************)
(* Applying overrides (run_simulation_internal_ref, "Apply overrides").    *)
(* An override value is an f64; the model carries it in halves (3 is 1.5), *)
(* so that floor() does something.                                         *)
(***************************************************************************)
Floor(h) == h \div 2

RequiredPayloadTypesFirst(sc) ==
    IF sc.mission_types = << >> THEN {}
    ELSE SeqRange(sc.mission_types[1].required_payload_types)

RequiredPayloadTypes(sc) ==
    UNION {SeqRange(sc.mission_types[k].required_payload_types) :
              k \in DOMAIN sc.mission_types}

\* One unit's overrides applied to the initial resources.
ApplyUnitOverrides(ini, sc, unit, o) ==
    LET i1 == [ini EXCEPT !.units = @ \cup {unit}]
        i2 == IF IsSome(o.aircraft) /\ Unwrap(o.aircraft) >= 0
              THEN [i1 EXCEPT !.aircraft_by_unit = Put(@, unit, Floor(Unwrap(o.aircraft)))]
              ELSE i1
        crew2 == Get(i2.crew_by_unit, unit, CrewCountsZero)
        i3 == IF IsSome(o.pilot) /\ Unwrap(o.pilot) >= 0
              THEN [i2 EXCEPT !.crew_by_unit =
                        Put(@, unit, [crew2 EXCEPT !.pilot = Floor(Unwrap(o.pilot))])]
              ELSE i2
        crew3 == Get(i3.crew_by_unit, unit, CrewCountsZero)
        i4 == IF IsSome(o.so) /\ Unwrap(o.so) >= 0
              THEN [i3 EXCEPT !.crew_by_unit =
                        Put(@, unit, [crew3 EXCEPT !.so = Floor(Unwrap(o.so))])]
              ELSE i3
        pl4 == Get(i4.payload_by_unit, unit, EmptyMap)
        bt  == IF IsSome(o.payload_by_type) THEN Unwrap(o.payload_by_type) ELSE EmptyMap
        pl5 == IF IsSome(o.payload_by_type)
               THEN [t \in (DOMAIN pl4) \cup {x \in DOMAIN bt : bt[x] >= 0} |->
                        IF t \in DOMAIN bt /\ bt[t] >= 0 THEN Floor(bt[t]) ELSE pl4[t]]
               ELSE pl4
        i5 == IF IsSome(o.payload_by_type)
              THEN [i4 EXCEPT !.payload_by_unit = Put(@, unit, pl5)]
              ELSE i4
        pl6 == Get(i5.payload_by_unit, unit, EmptyMap)
        i6 == IF IsSome(o.payload_per_type) /\ Unwrap(o.payload_per_type) >= 0
              THEN [i5 EXCEPT !.payload_by_unit =
                        Put(@, unit, [t \in (DOMAIN pl6) \cup RequiredPayloadTypes(sc) |->
                                         Floor(Unwrap(o.payload_per_type))])]
              ELSE i5
    IN  i6

\* for (unit, o) in units_overrides: each step touches only its own unit's
\* entries, so the HashMap's iteration order does not show.
RECURSIVE ApplyAll(_, _, _, _)
ApplyAll(ini, sc, ov, todo) ==
    IF todo = {} THEN ini
    ELSE LET u == CHOOSE x \in todo : TRUE
         IN  ApplyAll(ApplyUnitOverrides(ini, sc, u, ov[u]), sc, ov, todo \ {u})

ApplyOverrides(ini, sc, opts) ==
    IF IsSome(opts.overrides) /\ IsSome(Unwrap(opts.overrides).units)
    THEN [ApplyAll(ini, sc, Unwrap(Unwrap(opts.overrides).units),
                   DOMAIN Unwrap(Unwrap(opts.overrides).units))
             EXCEPT !.overrides_applied = TRUE]
    ELSE ini

(***************************************************************************)
(* Building the pools ("Build resource pools per unit").                   *)
(***************************************************************************)
UnitPoolsNew(ini, unit) ==
    LET crew == Get(ini.crew_by_unit, unit, CrewCountsZero)
        pl   == Get(ini.payload_by_unit, unit, EmptyMap)
    IN  [ aircraft |-> ResourcePoolNew(Get(ini.aircraft_by_unit, unit, 0)),
          pilot    |-> ResourcePoolNew(crew.pilot),
          so       |-> ResourcePoolNew(crew.so),
          payloads |-> [t \in DOMAIN pl |-> ResourcePoolNew(pl[t])],
          mission_finishes |-> << >> ]

BuildPools(ini) == [u \in ini.units |-> UnitPoolsNew(ini, u)]

(***************************************************************************)
(* sample_dist: the set of values a draw can give.  The three random       *)
(* distributions give some duration >= 0, here one of 0..MaxDur.           *)
(***************************************************************************)
OrOpt(a, b) == IF IsSome(a) THEN a ELSE b

UnwrapOr(o, default) == IF IsSome(o) THEN Unwrap(o) ELSE default

sample_dist(dist) ==
    CASE dist.dist_type = "deterministic" ->
             {UnwrapOr(OrOpt(dist.value_hours, dist.value), 0)}
      [] dist.dist_type \in {"exponential", "lognormal"} -> 0..MaxDur
      [] dist.dist_type = "triangular" ->
             IF dist.abm THEN 0..MaxDur ELSE {0}
      [] OTHER -> {0}

\* Option<&Distribution>.map(sample_dist).unwrap_or(0.0)
SampleOpt(spec) == IF IsSome(spec) THEN sample_dist(Unwrap(spec)) ELSE {0}

(***************************************************************************)
(* generate_demand: the set of event lists it can return.                  *)
(***************************************************************************)
DemandEvent(t, name) ==
    [ time |-> t, event_type |-> "mission_demand", mission_type |-> name ]

\* while t < horizon { push(t); t += every }
RECURSIVE DeterministicTimesClosed(_, _, _)
DeterministicTimesClosed(t, every, horizon) ==
    IF t <= horizon
    THEN << t >> \o DeterministicTimesClosed(t + every, every, horizon)
    ELSE << >>

\* t += every; push(t): the first event one interval late
RECURSIVE DeterministicTimesLate(_, _, _)
DeterministicTimesLate(t, every, horizon) ==
    IF t + every < horizon
    THEN << t + every >> \o DeterministicTimesLate(t + every, every, horizon)
    ELSE << >>

RECURSIVE DeterministicTimes(_, _, _)
DeterministicTimes(t, every, horizon) ==
    IF t < horizon
    THEN << t >> \o DeterministicTimes(t + every, every, horizon)
    ELSE << >>

\* while t < horizon { t += dt; if t <= horizon { push(t) } }, for every
\* choice of the draws dt >= 0 that pushes at most n more events.  Draws
\* that overshoot the horizon all act alike, so one of them stands for all.
RECURSIVE PoissonTimesDoWhile(_, _, _)
PoissonTimesDoWhile(t, n, horizon) ==
    UNION { LET t2 == t + dt
            IN  IF t2 <= horizon
                THEN IF n = 0 THEN {}
                     ELSE { << t2 >> \o rest :
                              rest \in IF t2 < horizon
                                       THEN PoissonTimesDoWhile(t2, n - 1, horizon)
                                       ELSE { << >> } }
                ELSE { << >> }
            : dt \in 0..(horizon - t + 1) }

RECURSIVE PoissonTimes(_, _, _)
PoissonTimes(t, n, horizon) ==
    IF ~(t < horizon) THEN { << >> }
    ELSE UNION { LET t2 == t + dt
                 IN  IF t2 <= horizon
                     THEN IF n = 0 THEN {}
                          ELSE { << t2 >> \o rest : rest \in PoissonTimes(t2, n - 1, horizon) }
                     ELSE { << >> }
                 : dt \in 0..(horizon - t + 1) }

DemandTimes(d, horizon) ==
    IF UnwrapOr(d.demand_type, "poisson") = "deterministic"
    THEN LET every == UnwrapOr(OrOpt(d.every_hours, d.interval_hours), 1)
         IN  IF every <= 0 THEN { << >> }
             ELSE { DeterministicTimes(UnwrapOr(d.start_at_hours, 0), every, horizon) }
    ELSE LET rate == UnwrapOr(d.rate_per_hour, 0)
         IN  IF rate <= 0 THEN { << >> }
             ELSE PoissonTimes(0, MaxPoisson, horizon)

\* events.sort_by(time): a stable sort.
RECURSIVE InsertSorted(_, _)
InsertSorted(sorted, e) ==
    IF sorted = << >> THEN << e >>
    ELSE IF e.time < sorted[Len(sorted)].time
         THEN InsertSorted(SubSeq(sorted, 1, Len(sorted) - 1), e) \o << sorted[Len(sorted)] >>
         ELSE sorted \o << e >>

\* the list as the loop over scenario.demand built it
Unsorted(evs) == evs

RECURSIVE SortByTime(_)
SortByTime(evs) ==
    IF evs = << >> THEN << >>
    ELSE InsertSorted(SortByTime(SubSeq(evs, 1, Len(evs) - 1)), evs[Len(evs)])

\* The unsorted lists the loop over scenario.demand can build from spec k on.
RECURSIVE DemandFrom(_, _)
DemandFrom(sc, k) ==
    IF k > Len(sc.demand) THEN { << >> }
    ELSE { [j \in 1..Len(ts) |-> DemandEvent(ts[j], sc.demand[k].mission_type)] \o rest :
             ts \in DemandTimes(sc.demand[k], sc.horizon_hours),
             rest \in DemandFrom(sc, k + 1) }

generate_demand(sc) == { SortByTime(evs) : evs \in DemandFrom(sc, 1) }

(***************************************************************************)
(* The event loop of run_simulation_internal_ref.                          *)
(***************************************************************************)
MissionStatsZero == [ requested |-> 0, started |-> 0, completed |-> 0, rejected |-> 0 ]

ResultsNew(sc, ini) ==
    [ horizon_hours |-> sc.horizon_hours,
      missions |-> MissionStatsZero,
      rejections |-> [ aircraft |-> 0, pilot |-> 0, so |-> 0, payload |-> 0 ],
      utilization |-> EmptyMap,
      by_type |-> EmptyMap,
      timeline |-> << >>,
      initial_resources |-> ini ]

\* mission_types: HashMap collected from (name, type) pairs; of two types
\* with one name the later one stays.
MissionTypeNames(sc) == {sc.mission_types[k].name : k \in DOMAIN sc.mission_types}

LookupMissionType(sc, name) ==
    LET ks == {k \in DOMAIN sc.mission_types : sc.mission_types[k].name = name}
    IN  sc.mission_types[CHOOSE k \in ks : \A j \in ks : j <= k]

\* scenario.unit_policy.mission_split, as an Option of a map unit -> weight
MissionSplit(sc) ==
    IF IsSome(sc.unit_policy) THEN Unwrap(sc.unit_policy).mission_split ELSE NoneOpt

RoundRobin(sc) ==
    ~IsSome(MissionSplit(sc)) \/ DOMAIN Unwrap(MissionSplit(sc)) = {}

UnitDrawDen == 4       \* rng.gen::<f64>() is one of 0/4, 1/4, 2/4, 3/4

\* cumulative weight of the first k units of the list
RECURSIVE CumWeight(_, _, _)
CumWeight(split, ulist, k) ==
    IF k = 0 THEN 0 ELSE CumWeight(split, ulist, k - 1) + Get(split, ulist[k], 0)

\* r = U * acc; the first unit with r <= cum, else the last unit.
WeightedPick(split, ulist, u) ==
    LET acc  == CumWeight(split, ulist, Len(ulist))
        hits == {k \in 1..Len(ulist) : u * acc <= CumWeight(split, ulist, k) * UnitDrawDen}
    IN  IF hits = {} THEN ulist[Len(ulist)]
        ELSE ulist[CHOOSE k \in hits : \A j \in hits : k <= j]

\* round-robin that starts at the second unit
PickUnitOneBased(sc, ulist, i, u) ==
    IF RoundRobin(sc) THEN ulist[((i + 1) % Len(ulist)) + 1]
    ELSE WeightedPick(Unwrap(MissionSplit(sc)), ulist, u)

\* i is the 0-based enumerate() index.
PickUnit(sc, ulist, i, u) ==
    IF RoundRobin(sc) THEN ulist[(i % Len(ulist)) + 1]
    ELSE WeightedPick(Unwrap(MissionSplit(sc)), ulist, u)

\* mount_times.get(ptype), an Option<&Distribution>
MountSpec(sc, ptype) ==
    IF IsSome(sc.process_times) /\ IsSome(Unwrap(sc.process_times).mount_times)
       /\ ptype \in DOMAIN Unwrap(Unwrap(sc.process_times).mount_times)
    THEN Some(Unwrap(Unwrap(sc.process_times).mount_times)[ptype])
    ELSE NoneOpt

ProcessSpec(sc, which) ==
    IF IsSome(sc.process_times)
    THEN CASE which = "preflight"  -> Unwrap(sc.process_times).preflight
           [] which = "postflight" -> Unwrap(sc.process_times).postflight
           [] which = "turnaround" -> Unwrap(sc.process_times).turnaround
    ELSE NoneOpt

RECURSIVE SeqProduct(_)
SeqProduct(sets) ==
    IF sets = << >> THEN { << >> }
    ELSE { << h >> \o t : h \in Head(sets), t \in SeqProduct(Tail(sets)) }

\* What the random source can give while one event is processed: the unit
\* draw and the sampled durations.  An unknown mission type draws nothing.
NoDraw == [ u |-> 0, mount |-> << >>, pre |-> 0, flight |-> 0, post |-> 0, turnaround |-> 0 ]

Draws(sc, ev) ==
    IF ev.mission_type \notin MissionTypeNames(sc) THEN { NoDraw }
    ELSE LET mt == LookupMissionType(sc, ev.mission_type)
             pts == mt.required_payload_types
         IN  [ u : IF RoundRobin(sc) THEN {0} ELSE 0..(UnitDrawDen - 1),
               mount : SeqProduct([k \in 1..Len(pts) |-> SampleOpt(MountSpec(sc, pts[k]))]),
               pre : SampleOpt(ProcessSpec(sc, "preflight")),
               flight : sample_dist(mt.flight_time),
               post : SampleOpt(ProcessSpec(sc, "postflight")),
               turnaround : SampleOpt(ProcessSpec(sc, "turnaround")) ]

\* The admission loop over the required payload types: entry().or_insert
\* makes a pool of 0 for a type the unit has none of; available_at cleans
\* up; the loop breaks at the first type with nothing available.
RECURSIVE CheckPayloads(_, _, _)
CheckPayloads(payloads, types, time) ==
    IF types = << >> THEN [ payloads |-> payloads, ok |-> TRUE ]
    ELSE LET t  == Head(types)
             p0 == Get(payloads, t, ResourcePoolNew(0))
             a  == available_at(p0, time)
             pl == Put(payloads, t, a.pool)
         IN  IF a.avail < 1 THEN [ payloads |-> pl, ok |-> FALSE ]
             ELSE CheckPayloads(pl, Tail(types), time)

\* The acquisition loop over the required payload types.  A failed
\* try_acquire counts a rejection and `continue`s this inner loop.
RECURSIVE AcquirePayloads(_, _, _, _)
AcquirePayloads(payloads, types, time, duration) ==
    IF types = << >> THEN [ payloads |-> payloads, failed |-> 0 ]
    ELSE LET t    == Head(types)
             a    == try_acquire(payloads[t], time, duration, 1)
             rest == AcquirePayloads(Put(payloads, t, a.pool), Tail(types), time, duration)
         IN  [ payloads |-> rest.payloads,
               failed |-> rest.failed + (IF a.ok THEN 0 ELSE 1) ]

BumpByTypeStartedOnly(by_type, name, started, rejected) ==
    LET bt == Get(by_type, name, MissionStatsZero)
    IN  Put(by_type, name, [bt EXCEPT !.requested = @ + started,
                                      !.started = @ + started,
                                      !.rejected = @ + rejected])

BumpByType(by_type, name, started, rejected) ==
    LET bt == Get(by_type, name, MissionStatsZero)
    IN  Put(by_type, name, [bt EXCEPT !.requested = @ + 1,
                                      !.started = @ + started,
                                      !.rejected = @ + rejected])

AdmissionRejectNoReason(res, ev, unit, mt, reason) ==
    [res EXCEPT !.missions.rejected = @ + 1,
                !.by_type = BumpByType(@, mt.name, 0, 1),
                !.timeline = Append(@, [ type |-> "rejection", time |-> ev.time,
                                         unit |-> unit, mission_type |-> mt.name,
                                         reason |-> reason ])]

\* A rejection by the admission check.
AdmissionReject(res, ev, unit, mt, reason) ==
    [res EXCEPT !.missions.rejected = @ + 1,
                !.rejections[reason] = @ + 1,
                !.by_type = BumpByType(@, mt.name, 0, 1),
                !.timeline = Append(@, [ type |-> "rejection", time |-> ev.time,
                                         unit |-> unit, mission_type |-> mt.name,
                                         reason |-> reason ])]

\* A rejection by the acquisition step (n failed acquisitions).
AcquireReject(res, reason, n) ==
    [res EXCEPT !.missions.rejected = @ + n,
                !.rejections[reason] = @ + n]

Segment(name, start, end) == [ name |-> name, start |-> start, end |-> end ]

MissionEntryNoMount(ev, unit, mt, d, mount_time) ==
    LET t0 == ev.time
        t1 == t0 + d.pre
        t2 == t1
        t3 == t2 + d.flight
        t4 == t3 + d.post
        t5 == t4 + d.turnaround
    IN  [ type |-> "mission", unit |-> unit, mission_type |-> mt.name,
          demand_time |-> t0, finish_time |-> t5,
          segments |-> << Segment("preflight", t0, t1), Segment("mount", t1, t2),
                          Segment("flight", t2, t3), Segment("postflight", t3, t4),
                          Segment("turnaround", t4, t5) >> ]

MissionEntry(ev, unit, mt, d, mount_time) ==
    LET t0 == ev.time
        t1 == t0 + d.pre
        t2 == t1 + mount_time
        t3 == t2 + d.flight
        t4 == t3 + d.post
        t5 == t4 + d.turnaround
    IN  [ type |-> "mission", unit |-> unit, mission_type |-> mt.name,
          demand_time |-> t0, finish_time |-> t5,
          segments |-> << Segment("preflight", t0, t1), Segment("mount", t1, t2),
                          Segment("flight", t2, t3), Segment("postflight", t3, t4),
                          Segment("turnaround", t4, t5) >> ]

NeedPilot(mt) ==
    IF IsSome(mt.required_aircrew) THEN UnwrapOr(Unwrap(mt.required_aircrew).pilot, 0) ELSE 0

NeedSo(mt) ==
    IF IsSome(mt.required_aircrew) THEN UnwrapOr(Unwrap(mt.required_aircrew).so, 0) ELSE 0

\* The body of the loop after the unit is picked runs as a chain of steps
\* over S = [up, res, go]: the picked unit's pools, the results, and whether
\* the iteration is still running (FALSE after a `continue`).
Duration(d) == d.pre + SumSeq(d.mount) + d.flight + d.post + d.turnaround

Stop(up, res) == [ up |-> up, res |-> res, go |-> FALSE ]

\* "Check payloads first"
CheckPayloadStep(S, ev, unit, mt) ==
    LET chk == CheckPayloads(S.up.payloads, mt.required_payload_types, ev.time)
        up1 == [S.up EXCEPT !.payloads = chk.payloads]
    IN  IF chk.ok THEN [S EXCEPT !.up = up1]
        ELSE Stop(up1, AdmissionReject(S.res, ev, unit, mt, "payload"))

\* an aircraft check that counts a denial on the pool
CheckAircraftStepDenial(S, ev, unit, mt) ==
    IF ~S.go THEN S
    ELSE LET a   == available_at(S.up.aircraft, ev.time)
             up1 == [S.up EXCEPT !.aircraft = a.pool]
         IN  IF a.avail < 1
             THEN Stop([up1 EXCEPT !.aircraft.denials = @ + 1],
                       AdmissionReject(S.res, ev, unit, mt, "aircraft"))
             ELSE [S EXCEPT !.up = up1]

\* if pool.aircraft.available_at(ev.time) < 1
CheckAircraftStep(S, ev, unit, mt) ==
    IF ~S.go THEN S
    ELSE LET a   == available_at(S.up.aircraft, ev.time)
             up1 == [S.up EXCEPT !.aircraft = a.pool]
         IN  IF a.avail < 1
             THEN Stop(up1, AdmissionReject(S.res, ev, unit, mt, "aircraft"))
             ELSE [S EXCEPT !.up = up1]

\* if need_pilot > 0 && pool.pilot.available_at(ev.time) < need_pilot
CheckPilotStep(S, ev, unit, mt) ==
    IF ~S.go \/ ~(NeedPilot(mt) > 0) THEN S
    ELSE LET a   == available_at(S.up.pilot, ev.time)
             up1 == [S.up EXCEPT !.pilot = a.pool]
         IN  IF a.avail < NeedPilot(mt)
             THEN Stop(up1, AdmissionReject(S.res, ev, unit, mt, "pilot"))
             ELSE [S EXCEPT !.up = up1]

CheckSoStepPilotReason(S, ev, unit, mt) ==
    IF ~S.go \/ ~(NeedSo(mt) > 0) THEN S
    ELSE LET a   == available_at(S.up.so, ev.time)
             up1 == [S.up EXCEPT !.so = a.pool]
         IN  IF a.avail < NeedSo(mt)
             THEN Stop(up1, AdmissionReject(S.res, ev, unit, mt, "pilot"))
             ELSE [S EXCEPT !.up = up1]

\* if need_so > 0 && pool.so.available_at(ev.time) < need_so
CheckSoStep(S, ev, unit, mt) ==
    IF ~S.go \/ ~(NeedSo(mt) > 0) THEN S
    ELSE LET a   == available_at(S.up.so, ev.time)
             up1 == [S.up EXCEPT !.so = a.pool]
         IN  IF a.avail < NeedSo(mt)
             THEN Stop(up1, AdmissionReject(S.res, ev, unit, mt, "so"))
             ELSE [S EXCEPT !.up = up1]

\* for ptype in &payload_types { try_acquire(..., 1) ... continue }: the
\* `continue` is the inner loop's, so the iteration goes on after it.
AcquirePayloadStep(S, ev, mt, d) ==
    IF ~S.go THEN S
    ELSE LET acq == AcquirePayloads(S.up.payloads, mt.required_payload_types,
                                    ev.time, Duration(d))
         IN  [S EXCEPT !.up.payloads = acq.payloads,
                       !.res = AcquireReject(@, "payload", acq.failed)]

\* if !pool.aircraft.try_acquire(ev.time, duration, 1)
AcquireAircraftStep(S, ev, d) ==
    IF ~S.go THEN S
    ELSE LET a   == try_acquire(S.up.aircraft, ev.time, Duration(d), 1)
             up1 == [S.up EXCEPT !.aircraft = a.pool]
         IN  IF a.ok THEN [S EXCEPT !.up = up1]
             ELSE Stop(up1, AcquireReject(S.res, "aircraft", 1))

\* if need_pilot > 0 && !pool.pilot.try_acquire(ev.time, duration, need_pilot)
AcquirePilotStep(S, ev, mt, d) ==
    IF ~S.go \/ ~(NeedPilot(mt) > 0) THEN S
    ELSE LET a   == try_acquire(S.up.pilot, ev.time, Duration(d), NeedPilot(mt))
             up1 == [S.up EXCEPT !.pilot = a.pool]
         IN  IF a.ok THEN [S EXCEPT !.up = up1]
             ELSE Stop(up1, AcquireReject(S.res, "pilot", 1))

\* if need_so > 0 && !pool.so.try_acquire(ev.time, duration, need_so)
AcquireSoStep(S, ev, mt, d) ==
    IF ~S.go \/ ~(NeedSo(mt) > 0) THEN S
    ELSE LET a   == try_acquire(S.up.so, ev.time, Duration(d), NeedSo(mt))
             up1 == [S.up EXCEPT !.so = a.pool]
         IN  IF a.ok THEN [S EXCEPT !.up = up1]
             ELSE Stop(up1, AcquireReject(S.res, "so", 1))

\* mission_finishes.push, started, by_type, the timeline entry
StartStep(S, ev, unit, mt, d) ==
    IF ~S.go THEN S
    ELSE [ up |-> [S.up EXCEPT !.mission_finishes = Append(@, ev.time + Duration(d))],
           res |-> [S.res EXCEPT
                       !.missions.started = @ + 1,
                       !.by_type = BumpByType(@, mt.name, 1, 0),
                       !.timeline = Append(@, MissionEntry(ev, unit, mt, d, SumSeq(d.mount)))],
           go |-> TRUE ]

\* the admission check with the aircraft looked at before the payloads
AdmissionAircraftFirst(up, res, ev, unit, mt) ==
    CheckSoStep(
      CheckPilotStep(
        CheckPayloadStep(
          CheckAircraftStep([ up |-> up, res |-> res, go |-> TRUE ], ev, unit, mt),
          ev, unit, mt),
        ev, unit, mt),
      ev, unit, mt)

\* The admission check.
Admission(up, res, ev, unit, mt) ==
    CheckSoStep(
      CheckPilotStep(
        CheckAircraftStep(
          CheckPayloadStep([ up |-> up, res |-> res, go |-> TRUE ], ev, unit, mt),
          ev, unit, mt),
        ev, unit, mt),
      ev, unit, mt)

\* The acquisition step and the start of the mission.
AcquireAndStart(S, ev, unit, mt, d) ==
    StartStep(
      AcquireSoStep(
        AcquirePilotStep(
          AcquireAircraftStep(
            AcquirePayloadStep(S, ev, mt, d),
            ev, d),
          ev, mt, d),
        ev, mt, d),
      ev, unit, mt, d)

AdmitOrReject(up, res, ev, unit, mt, d) ==
    AcquireAndStart(Admission(up, res, ev, unit, mt), ev, unit, mt, d)

\* an unknown mission type counted as a rejection
ProcessEventRejectUnknown(R, sc, ulist, i, ev, d) ==
    LET res == [R.results EXCEPT !.missions.requested = @ + 1]
    IN  IF ev.mission_type \notin MissionTypeNames(sc) \/ ulist = << >>
        THEN [ pools |-> R.pools,
               results |-> [res EXCEPT !.missions.rejected = @ + 1] ]
        ELSE LET mt   == LookupMissionType(sc, ev.mission_type)
                 unit == PickUnit(sc, ulist, i, d.u)
                 out  == AdmitOrReject(R.pools[unit], res, ev, unit, mt, d)
             IN  [ pools |-> [R.pools EXCEPT ![unit] = out.up],
                   results |-> out.res ]

\* One iteration of `for (i, ev) in events.iter().enumerate()` for an event
\* with time <= horizon: R = [pools, results] before, the value is R after.
\* i is the 0-based index, d the draws of the random source.
\* an event the picked unit rejects is handed to a unit that can take it
ProcessEventFallback(R, sc, ulist, i, ev, d) ==
    LET res == [R.results EXCEPT !.missions.requested = @ + 1]
    IN  IF ev.mission_type \notin MissionTypeNames(sc) \/ ulist = << >>
        THEN [ pools |-> R.pools, results |-> res ]
        ELSE LET mt     == LookupMissionType(sc, ev.mission_type)
                 unit   == PickUnit(sc, ulist, i, d.u)
                 Try(v) == AdmitOrReject(R.pools[v], res, ev, v, mt, d)
                 Rejected(v) == Try(v).res.missions.rejected > res.missions.rejected
                 others == { v \in DOMAIN R.pools : ~Rejected(v) }
                 pick   == IF Rejected(unit) /\ others # {}
                           THEN CHOOSE v \in others : TRUE
                           ELSE unit
             IN  [ pools |-> [R.pools EXCEPT ![pick] = Try(pick).up],
                   results |-> Try(pick).res ]

ProcessEvent(R, sc, ulist, i, ev, d) ==
    LET res == [R.results EXCEPT !.missions.requested = @ + 1]
    IN  IF ev.mission_type \notin MissionTypeNames(sc) \/ ulist = << >>
        THEN [ pools |-> R.pools, results |-> res ]
        ELSE LET mt   == LookupMissionType(sc, ev.mission_type)
                 unit == PickUnit(sc, ulist, i, d.u)
                 out  == AdmitOrReject(R.pools[unit], res, ev, unit, mt, d)
             IN  [ pools |-> [R.pools EXCEPT ![unit] = out.up],
                   results |-> out.res ]

(***************************************************************************)
(* Post-loop finalization ("Calculate statistics", "Per-mission-type       *)
(* completion counts", "Utilization per unit").                            *)
(***************************************************************************)
CountFinishedStrict(finishes, horizon) ==
    Cardinality({k \in DOMAIN finishes : finishes[k] < horizon})

CountFinished(finishes, horizon) ==
    Cardinality({k \in DOMAIN finishes : finishes[k] <= horizon})

RECURSIVE CompletedOver(_, _, _)
CompletedOver(P, ulist, horizon) ==
    IF ulist = << >> THEN 0
    ELSE CountFinished(P[Head(ulist)].mission_finishes, horizon)
         + CompletedOver(P, Tail(ulist), horizon)

RECURSIVE CompleteByType(_, _, _)
CompleteByType(by_type, timeline, horizon) ==
    IF timeline = << >> THEN by_type
    ELSE LET item == Head(timeline)
             bt   == IF item.type = "mission" /\ item.finish_time <= horizon
                     THEN Put(by_type, item.mission_type,
                              [Get(by_type, item.mission_type, MissionStatsZero)
                                  EXCEPT !.completed = @ + 1])
                     ELSE by_type
         IN  CompleteByType(bt, Tail(timeline), horizon)

UnitUtilization(up, horizon) ==
    [ aircraft |-> Round3(utilization(up.aircraft, horizon)),
      pilot    |-> Round3(utilization(up.pilot, horizon)),
      so       |-> Round3(utilization(up.so, horizon)) ]

Finalized(R, ulist, horizon) ==
    [R.results EXCEPT
        !.missions.completed = @ + CompletedOver(R.pools, ulist, horizon),
        !.by_type = CompleteByType(@, R.results.timeline, horizon),
        !.utilization = [u \in SeqRange(ulist) |-> UnitUtilization(R.pools[u], horizon)]]

(***************************************************************************)
(* The inputs the model runs the engine on.                                *)
(***************************************************************************)
Det(v) == [ dist_type |-> "deterministic", value_hours |-> Some(v), value |-> NoneOpt,
            abm |-> FALSE ]
DetValue(v) == [ dist_type |-> "deterministic", value_hours |-> NoneOpt, value |-> Some(v),
                 abm |-> FALSE ]
Expo == [ dist_type |-> "exponential", value_hours |-> NoneOpt, value |-> NoneOpt,
          abm |-> FALSE ]
Tri == [ dist_type |-> "triangular", value_hours |-> NoneOpt, value |-> NoneOpt,
         abm |-> TRUE ]

Ferry(flight) ==
    [ name |-> "ferry", required_payload_types |-> << >>,
      required_aircrew |-> Some([ pilot |-> Some(1), so |-> NoneOpt ]),
      flight_time |-> flight ]
Recon(flight) ==
    [ name |-> "recon", required_payload_types |-> << "eo" >>,
      required_aircrew |-> Some([ pilot |-> Some(1), so |-> Some(1) ]),
      flight_time |-> flight ]
Strike(flight) ==
    [ name |-> "strike", required_payload_types |-> << "eo", "eo" >>,
      required_aircrew |-> Some([ pilot |-> Some(2), so |-> NoneOpt ]),
      flight_time |-> flight ]
Cargo(flight) ==
    [ name |-> "cargo", required_payload_types |-> << >>,
      required_aircrew |-> NoneOpt, flight_time |-> flight ]

DetDemand(name, every, start) ==
    [ mission_type |-> name, demand_type |-> Some("deterministic"),
      rate_per_hour |-> NoneOpt, every_hours |-> Some(every), interval_hours |-> NoneOpt,
      start_at_hours |-> start ]
IntervalDemand(name, every) ==
    [ mission_type |-> name, demand_type |-> Some("deterministic"),
      rate_per_hour |-> NoneOpt, every_hours |-> NoneOpt, interval_hours |-> Some(every),
      start_at_hours |-> NoneOpt ]
PoissonDemand(name, rate) ==
    [ mission_type |-> name, demand_type |-> NoneOpt,
      rate_per_hour |-> rate, every_hours |-> NoneOpt, interval_hours |-> NoneOpt,
      start_at_hours |-> NoneOpt ]

ProcessTimes1 ==
    [ preflight |-> Some(Det(1)), postflight |-> Some(Det(1)), turnaround |-> Some(DetValue(1)),
      mount_times |-> Some([t \in {"eo"} |-> Det(1)]) ]

\* End-to-end scenario 1: horizon 10, one demand every 5 from 0, flight 2,
\* no process times, pilot = 1.
Scenario1 ==
    [ horizon_hours |-> 10,
      demand |-> << DetDemand("ferry", 5, Some(0)) >>,
      mission_types |-> << Ferry(Det(2)) >>,
      process_times |-> NoneOpt, unit_policy |-> NoneOpt ]

\* Deterministic, three mission types, process times, an unknown mission
\* type and a demand with a non-positive interval.
Scenario2 ==
    [ horizon_hours |-> 4,
      demand |-> << DetDemand("recon", 2, NoneOpt), DetDemand("strike", 3, Some(1)),
                    DetDemand("ferry", 0, NoneOpt), DetDemand("ghost", 4, Some(2)) >>,
      mission_types |-> << Ferry(Det(1)), Recon(Det(3)), Strike(Det(1)) >>,
      process_times |-> Some(ProcessTimes1), unit_policy |-> NoneOpt ]

\* Poisson arrivals, random flight times.
Scenario3 ==
    [ horizon_hours |-> 3,
      demand |-> << PoissonDemand("recon", Some(1)), PoissonDemand("ferry", Some(0)) >>,
      mission_types |-> << Ferry(Expo), Recon(Expo) >>,
      process_times |-> NoneOpt,
      unit_policy |-> Some([ mission_split |-> Some(EmptyMap) ]) ]

\* Weighted unit selection, a mission type with a repeated payload type.
Scenario4 ==
    [ horizon_hours |-> 2,
      demand |-> << PoissonDemand("strike", Some(2)), IntervalDemand("cargo", 1) >>,
      mission_types |-> << Strike(Det(1)), Cargo(Tri) >>,
      process_times |-> NoneOpt,
      unit_policy |-> Some([ mission_split |-> Some([u \in {"A", "B"} |->
                                                      IF u = "A" THEN 1 ELSE 3]) ]) ]

\* Zero horizon.
Scenario5 == [Scenario2 EXCEPT !.horizon_hours = 0]

\* One long mission that needs a payload, then short ones that need none.
Scenario6 ==
    [ horizon_hours |-> 3,
      demand |-> << DetDemand("recon", 3, NoneOpt), IntervalDemand("cargo", 1) >>,
      mission_types |-> << Recon(Det(3)), Cargo(DetValue(1)) >>,
      process_times |-> NoneOpt, unit_policy |-> NoneOpt ]

\* Zero horizon with Poisson arrivals and a deterministic demand from 0.
Scenario7 ==
    [ horizon_hours |-> 0,
      demand |-> << PoissonDemand("recon", Some(1)), DetDemand("ferry", 1, Some(0)) >>,
      mission_types |-> << Ferry(Det(1)), Recon(Expo) >>,
      process_times |-> NoneOpt, unit_policy |-> NoneOpt ]

\* Zero horizon with a deterministic demand that starts before time 0.
Scenario8 ==
    [ horizon_hours |-> 0,
      demand |-> << DetDemand("ferry", 1, Some(-2)) >>,
      mission_types |-> << Ferry(Det(1)) >>,
      process_times |-> NoneOpt, unit_policy |-> NoneOpt ]

Scenarios == { Scenario1, Scenario2, Scenario3, Scenario4, Scenario5, Scenario6,
               Scenario7, Scenario8 }

\* State snapshots: rows of the four tables for a list of
\* <<unit, FMC aircraft, pilots, SOs, payload types>>.
AircraftRow(u, status) == [ Unit |-> u, Status |-> status ]
StaffRow(u, mos) == [ UnitName |-> u, MOS |-> mos ]
PayloadRow(u, t) == [ Unit |-> u, Type |-> t ]

RECURSIVE Snapshot(_)
Snapshot(spec) ==
    IF spec = << >>
    THEN [ v_unit |-> << >>, v_aircraft |-> << AircraftRow("A", "NMC") >>,
           v_payload |-> << PayloadRow("A", None) >>,
           v_staffing |-> << StaffRow(None, "7318") >> ]
    ELSE LET h == Head(spec)
             r == Snapshot(Tail(spec))
         IN  [ v_unit |-> << [ Unit |-> h[1] ] >> \o r.v_unit,
               v_aircraft |-> Repeat(AircraftRow(h[1], "FMC"), h[2]) \o r.v_aircraft,
               v_payload |-> [k \in 1..Len(h[5]) |-> PayloadRow(h[1], h[5][k])] \o r.v_payload,
               v_staffing |-> Repeat(StaffRow(h[1], "7318"), h[3])
                              \o Repeat(StaffRow(h[1], "7314"), h[4]) \o r.v_staffing ]

States ==
    { NoneOpt,
      Some(Snapshot(<< >>)),
      Some(Snapshot(<< << "A", 1, 1, 0, << >> >> >>)),
      Some(Snapshot(<< << "A", 1, 2, 1, << "eo" >> >> >>)),
      Some(Snapshot(<< << "A", 2, 2, 1, << "eo", "eo" >> >>,
                       << "B", 1, 1, 1, << "eo" >> >> >>)),
      Some(Snapshot(<< << "A", 1, 1, 1, << "eo" >> >>,
                       << "B", 0, 0, 0, << >> >> >>)) }

NoUnitOverrides ==
    [ aircraft |-> NoneOpt, pilot |-> NoneOpt, so |-> NoneOpt,
      payload_per_type |-> NoneOpt, payload_by_type |-> NoneOpt ]

\* Override values are in halves: 4 is 2.0, 3 is 1.5, -1 is -0.5.
OverridesSet ==
    { NoneOpt,
      Some([ units |-> NoneOpt ]),
      Some([ units |-> Some([u \in {"A"} |-> [NoUnitOverrides EXCEPT !.aircraft = Some(0)]]) ]),
      Some([ units |-> Some([u \in {"B"} |->
                [NoUnitOverrides EXCEPT !.aircraft = Some(2), !.pilot = Some(3),
                                        !.so = Some(-1), !.payload_per_type = Some(2)]]) ]),
      Some([ units |-> Some([u \in {"A"} |->
                [NoUnitOverrides EXCEPT !.pilot = Some(-2), !.so = Some(2),
                     !.payload_by_type = Some([t \in {"eo", "ir"} |->
                                                 IF t = "eo" THEN 5 ELSE -2])]]) ]),
      Some([ units |-> Some([u \in {"A"} |->
                [NoUnitOverrides EXCEPT !.payload_by_type = Some([t \in {"ir"} |-> 4]),
                                        !.payload_per_type = Some(3)]]) ]) }

OptionsSet == [ state : States, overrides : OverridesSet ]

Perms(S) ==
    { f \in [1..Cardinality(S) -> S] : \A a, b \in 1..Cardinality(S) : a # b => f[a] # f[b] }

(***************************************************************************)
(* One run of run_simulation_internal_ref.                                 *)
(***************************************************************************)
NoRun2 ==
    /\ options2 = NoneOpt /\ events2 = << >> /\ unit_list2 = << >>
    /\ pools2 = EmptyMap /\ results2 = NoneOpt

NoPool == pool = ResourcePoolNew(0) /\ ret = 0 /\ ops = 0 /\ accepted = << >>

NoMC ==
    /\ mc_options = NoneOpt /\ iterations = 0 /\ keep_iterations = FALSE
    /\ remaining = {} /\ workers = EmptyMap /\ locks = EmptyMap
    /\ aggregator = NoneOpt /\ first_result = NoneOpt /\ stored_results = << >>
    /\ task_errors = {} /\ mc_out = NoneOpt

NoPick == draw = NoneOpt /\ selected = None

NoStats ==
    /\ hasher = NoneOpt /\ fed = << >> /\ stats = NoneOpt /\ stat_out = NoneOpt

Init ==
    /\ pc = "start"
    /\ scenario \in Scenarios
    /\ options \in OptionsSet
    /\ initial = NoneOpt
    /\ events = << >>
    /\ idx = 0
    /\ unit_list = << >>
    /\ pools = EmptyMap
    /\ results = NoneOpt
    /\ NoRun2
    /\ NoPool
    /\ NoStats
    /\ NoMC
    /\ NoPick

\* The two early returns with Err: no state snapshot, or a snapshot with no
\* unit.  Both come before the overrides are read.
InvalidInputAfterOverrides(sc, opts) ==
    \/ ~IsSome(opts.state)
    \/ ApplyOverrides(derive_initial_from_state(Unwrap(opts.state)), sc, opts).units = {}

InvalidInput(sc, opts) ==
    \/ ~IsSome(opts.state)
    \/ derive_initial_from_state(Unwrap(opts.state)).units = {}

\* From entry up to the event loop: the state check, the initial resources,
\* the overrides, the pools, the demand events and the unit list.
Setup ==
    /\ pc = "start"
    /\ IF InvalidInput(scenario, options)
       THEN /\ pc' = "err"
            /\ UNCHANGED desVars
       ELSE LET ini == ApplyOverrides(derive_initial_from_state(Unwrap(options.state)),
                                      scenario, options)
            IN  /\ pc' = "loop"
                /\ initial' = ini
                /\ pools' = BuildPools(ini)
                /\ events' \in generate_demand(scenario)
                /\ results' = ResultsNew(scenario, ini)
                /\ unit_list' \in Perms(ini.units)
                /\ idx' = 0
                /\ UNCHANGED << scenario, options >>
    /\ UNCHANGED << run2Vars, poolVars, statVars, mcVars, pickVars >>

MoreEvents ==
    idx < Len(events) /\ ~(events[idx + 1].time > scenario.horizon_hours)

\* One event of the loop.
Step ==
    /\ pc = "loop"
    /\ MoreEvents
    /\ \E d \in Draws(scenario, events[idx + 1]) :
          LET R == ProcessEvent([ pools |-> pools, results |-> results ], scenario,
                                unit_list, idx, events[idx + 1], d)
          IN  /\ pools' = R.pools
              /\ results' = R.results
    /\ idx' = idx + 1
    /\ UNCHANGED << pc, scenario, options, initial, events, unit_list, run2Vars, poolVars, statVars, mcVars, pickVars >>

\* The loop is over (the list is exhausted, or an event is past the
\* horizon): the statistics, and Ok(results).
Finalize ==
    /\ pc = "loop"
    /\ ~MoreEvents
    /\ results' = Finalized([ pools |-> pools, results |-> results ], unit_list,
                            scenario.horizon_hours)
    /\ pc' = "done"
    /\ UNCHANGED << scenario, options, initial, events, idx, unit_list, pools,
                    run2Vars, poolVars, statVars, mcVars, pickVars >>

Next == Setup \/ Step \/ Finalize

Spec == Init /\ [][Next]_vars

(***************************************************************************)
(* Properties of one run.                                                  *)
(***************************************************************************)
Running == pc \in {"loop", "done"}

\* events processed so far whose mission type is not in the scenario
UnknownProcessed ==
    Cardinality({k \in 1..idx : events[k].mission_type \notin MissionTypeNames(scenario)})

RECURSIVE SumRequested(_)
SumRequested(by_type) ==
    IF DOMAIN by_type = {} THEN 0
    ELSE LET n == CHOOSE x \in DOMAIN by_type : TRUE
         IN  by_type[n].requested
             + SumRequested([x \in (DOMAIN by_type) \ {n} |-> by_type[x]])

MissionEntries(res) == {k \in DOMAIN res.timeline : res.timeline[k].type = "mission"}

\* C1: at the end of a run, requested = started + rejected + (demand events
\* with an unknown mission type); no event is counted as started and as
\* rejected.
C1_RequestedAccounting ==
    pc = "done" =>
        results.missions.requested =
            results.missions.started + results.missions.rejected + UnknownProcessed

\* C3 (as stated): scenario 1 gives requested = 3, started = 3,
\* completed = 3, rejected = 0 and aircraft utilization 0.600.
IsScenario1Run ==
    /\ pc = "done"
    /\ scenario = Scenario1
    /\ options = [ state |-> Some(Snapshot(<< << "A", 1, 1, 0, << >> >> >>)),
                   overrides |-> NoneOpt ]

C3_Scenario1AsStated ==
    IsScenario1Run =>
        /\ results.missions = [ requested |-> 3, started |-> 3, completed |-> 3,
                                rejected |-> 0 ]
        /\ results.utilization["A"].aircraft = 600

\* C3 (amended): scenario 1 gives requested = 2 (events at t = 0 and 5; no
\* event is generated at t = 10 = horizon), started = 2, completed = 2,
\* rejected = 0 and aircraft utilization 0.400.
C3_Scenario1 ==
    IsScenario1Run =>
        /\ results.missions = [ requested |-> 2, started |-> 2, completed |-> 2,
                                rejected |-> 0 ]
        /\ results.utilization["A"].aircraft = 400

C3_Witness ==
    /\ IsScenario1Run
    /\ Len(results.timeline) = 2
    /\ results.timeline[2].demand_time = 5

\* C6: the four rejection-reason counters sum to missions.rejected, after
\* every processed event and at the end of the run.
C6_RejectionSum ==
    Running =>
        results.rejections.aircraft + results.rejections.pilot
          + results.rejections.so + results.rejections.payload
        = results.missions.rejected

C6_Witness ==
    /\ pc = "done"
    /\ results.rejections.payload > 0
    /\ results.rejections.aircraft > 0
    /\ results.rejections.pilot + results.rejections.so > 0

\* C7: completed <= started, and at the end of the run completed is the
\* number of started missions whose finish time is <= horizon.
C7_Completed ==
    Running =>
        /\ results.missions.completed <= results.missions.started
        /\ pc = "done" =>
              results.missions.completed =
                  Cardinality({k \in MissionEntries(results) :
                      results.timeline[k].finish_time <= scenario.horizon_hours})

C7_Witness ==
    /\ pc = "done"
    /\ \E k \in MissionEntries(results) :
          results.timeline[k].finish_time = scenario.horizon_hours
    /\ \E k \in MissionEntries(results) :
          results.timeline[k].finish_time > scenario.horizon_hours

\* C8: the by_type requested counters sum to at most missions.requested, and
\* to exactly missions.requested when no processed event has an unknown
\* mission type.
C8_ByTypeRequested ==
    Running =>
        /\ SumRequested(results.by_type) <= results.missions.requested
        /\ UnknownProcessed = 0 =>
              SumRequested(results.by_type) = results.missions.requested

C8_Witness ==
    /\ pc = "done"
    /\ UnknownProcessed = 0
    /\ Cardinality(DOMAIN results.by_type) = 2
    /\ results.missions.rejected > 0
    /\ results.missions.started > 0

\* C9: every reported utilization is in [0, 1] (0..1000 thousandths); it is
\* min(1, B / (C * horizon)) rounded to 0.001, and 0 when C = 0 or
\* horizon <= 0.
ExpectedUtilization(p, h) ==
    IF p.total = 0 \/ h <= 0 THEN 0
    ELSE IF p.busy_time >= p.total * h THEN 1000
    ELSE (2000 * p.busy_time + p.total * h) \div (2 * p.total * h)

C9_Utilization ==
    pc = "done" =>
        /\ DOMAIN results.utilization = SeqRange(unit_list)
        /\ \A u \in DOMAIN results.utilization :
              LET ut == results.utilization[u]
                  h  == scenario.horizon_hours
              IN  /\ \A v \in {ut.aircraft, ut.pilot, ut.so} : 0 <= v /\ v <= 1000
                  /\ ut.aircraft = ExpectedUtilization(pools[u].aircraft, h)
                  /\ ut.pilot = ExpectedUtilization(pools[u].pilot, h)
                  /\ ut.so = ExpectedUtilization(pools[u].so, h)

C9_Witness ==
    /\ pc = "done"
    /\ \E u \in DOMAIN results.utilization :
          /\ pools[u].aircraft.busy_time > pools[u].aircraft.total * scenario.horizon_hours
          /\ pools[u].aircraft.total > 0
          /\ results.utilization[u].aircraft = 1000
    /\ \E u \in DOMAIN results.utilization :
          /\ results.utilization[u].pilot > 0
          /\ results.utilization[u].pilot < 1000

\* C10: a Mission timeline entry has the five segments preflight, mount,
\* flight, postflight, turnaround in this order; the first starts at
\* demand_time, each ends where the next starts, the last ends at
\* finish_time; finish_time is the finish recorded for the unit and the
\* release time of the aircraft the mission holds.
SegmentNames == << "preflight", "mount", "flight", "postflight", "turnaround" >>

WellFormedMission(m) ==
    /\ Len(m.segments) = 5
    /\ \A k \in 1..5 : m.segments[k].name = SegmentNames[k]
    /\ m.segments[1].start = m.demand_time
    /\ \A k \in 1..4 : m.segments[k].end = m.segments[k + 1].start
    /\ m.segments[5].end = m.finish_time

FinishTimesOf(res, u) ==
    LET ks == {k \in MissionEntries(res) : res.timeline[k].unit = u}
    IN  {res.timeline[k].finish_time : k \in ks}

NoDes ==
    /\ scenario = NoneOpt /\ options = NoneOpt /\ initial = NoneOpt /\ events = << >>
    /\ idx = 0 /\ unit_list = << >> /\ pools = EmptyMap /\ results = NoneOpt

InitPool ==
    /\ pc = "pool"
    /\ pool \in { ResourcePoolNew(total) : total \in 0..PoolMaxTotal }
    /\ ret = [ op |-> "new" ]
    /\ ops = 0
    /\ accepted = << >>
    /\ NoDes
    /\ NoRun2
    /\ NoStats
    /\ NoMC
    /\ NoPick

PoolAvailableAt ==
    /\ pc = "pool"
    /\ ops < PoolMaxOps
    /\ \E time \in 0..PoolMaxTime :
          LET a == available_at(pool, time)
          IN  /\ pool' = a.pool
              /\ ret' = [ op |-> "available_at", time |-> time, value |-> a.avail ]
    /\ ops' = ops + 1
    /\ UNCHANGED << pc, accepted, desVars, run2Vars, statVars, mcVars, pickVars >>

PoolTryAcquire ==
    /\ pc = "pool"
    /\ ops < PoolMaxOps
    /\ \E time \in 0..PoolMaxTime, duration_hours \in 0..PoolMaxDur, count \in 0..PoolMaxCount :
          LET a == try_acquire(pool, time, duration_hours, count)
          IN  /\ pool' = a.pool
              /\ ret' = [ op |-> "try_acquire", time |-> time, duration |-> duration_hours,
                          count |-> count, value |-> a.ok ]
    /\ ops' = ops + 1
    /\ UNCHANGED << pc, accepted, desVars, run2Vars, statVars, mcVars, pickVars >>

NextPool == PoolAvailableAt \/ PoolTryAcquire

SpecPool == InitPool /\ [][NextPool]_vars

\* C2: after any sequence of available_at and try_acquire calls the held
\* list is sorted ascending and has at most `total` entries.
C2_HeldSortedBounded ==
    pc = "pool" => IsSorted(pool.held) /\ Len(pool.held) <= pool.total

C2_Witness ==
    /\ pc = "pool"
    /\ pool.total = 2
    /\ Len(pool.held) = 2
    /\ pool.held[1] < pool.held[2]
    /\ pool.denials > 0
    /\ ret.op = "try_acquire" /\ ret.value
    /\ ret.time + ret.duration = pool.held[1]

(***************************************************************************)
(* Two runs of run_simulation_internal_ref side by side.                   *)
(***************************************************************************)
HasUnits(st) == IsSome(st) /\ derive_initial_from_state(Unwrap(st)).units # {}

InitialOf(sc, opts) ==
    ApplyOverrides(derive_initial_from_state(Unwrap(opts.state)), sc, opts)

\* Both runs are over: the statistics of each.
FinalizePair ==
    /\ pc = "loop"
    /\ ~MoreEvents
    /\ results' = Finalized([ pools |-> pools, results |-> results ], unit_list,
                            scenario.horizon_hours)
    /\ results2' = Finalized([ pools |-> pools2, results |-> results2 ], unit_list2,
                             scenario.horizon_hours)
    /\ pc' = "done"
    /\ UNCHANGED << scenario, options, initial, events, idx, unit_list, pools,
                    options2, events2, unit_list2, pools2, poolVars, statVars, mcVars, pickVars >>

(***************************************************************************)
(* Twin runs: the same scenario and the same options, each run with its    *)
(* own random source and its own HashMaps.  pools.keys() gives the units   *)
(* in the order of the map's hasher, which is seeded per map, so each run  *)
(* gets some order of its own.  The scenarios are the deterministic ones.  *)
(***************************************************************************)
IsDeterministicDist(dist) == dist.dist_type = "deterministic"

IsDeterministicScenario(sc) ==
    /\ RoundRobin(sc)
    /\ \A k \in DOMAIN sc.demand :
          UnwrapOr(sc.demand[k].demand_type, "poisson") = "deterministic"
    /\ \A k \in DOMAIN sc.mission_types : IsDeterministicDist(sc.mission_types[k].flight_time)
    /\ \A w \in {"preflight", "postflight", "turnaround"} :
          IsSome(ProcessSpec(sc, w)) => IsDeterministicDist(Unwrap(ProcessSpec(sc, w)))
    /\ \A t \in RequiredPayloadTypes(sc) :
          IsSome(MountSpec(sc, t)) => IsDeterministicDist(Unwrap(MountSpec(sc, t)))

InitTwin ==
    /\ pc = "start"
    /\ scenario \in { sc \in Scenarios : IsDeterministicScenario(sc) }
    /\ options \in { o \in OptionsSet : HasUnits(o.state) }
    /\ options2 = options
    /\ initial = NoneOpt
    /\ events = << >> /\ events2 = << >>
    /\ idx = 0
    /\ unit_list = << >> /\ unit_list2 = << >>
    /\ pools = EmptyMap /\ pools2 = EmptyMap
    /\ results = NoneOpt /\ results2 = NoneOpt
    /\ NoPool
    /\ NoStats
    /\ NoMC
    /\ NoPick

SetupTwin ==
    /\ pc = "start"
    /\ pc' = "loop"
    /\ initial' = InitialOf(scenario, options)
    /\ pools' = BuildPools(InitialOf(scenario, options))
    /\ pools2' = BuildPools(InitialOf(scenario, options2))
    /\ events' \in generate_demand(scenario)
    /\ events2' \in generate_demand(scenario)
    /\ results' = ResultsNew(scenario, InitialOf(scenario, options))
    /\ results2' = ResultsNew(scenario, InitialOf(scenario, options2))
    /\ unit_list' \in Perms(InitialOf(scenario, options).units)
    /\ unit_list2' \in Perms(InitialOf(scenario, options2).units)
    /\ idx' = 0
    /\ UNCHANGED << scenario, options, options2, poolVars, statVars, mcVars, pickVars >>

\* The next event of each run (the two lists are equal: see
\* TwinEventsEqual), each with its own draws.
StepTwin ==
    /\ pc = "loop"
    /\ MoreEvents
    /\ \E d \in Draws(scenario, events[idx + 1]), d2 \in Draws(scenario, events2[idx + 1]) :
          LET R  == ProcessEvent([ pools |-> pools, results |-> results ], scenario,
                                 unit_list, idx, events[idx + 1], d)
              R2 == ProcessEvent([ pools |-> pools2, results |-> results2 ], scenario,
                                 unit_list2, idx, events2[idx + 1], d2)
          IN  /\ pools' = R.pools
              /\ results' = R.results
              /\ pools2' = R2.pools
              /\ results2' = R2.results
    /\ idx' = idx + 1
    /\ UNCHANGED << pc, scenario, options, initial, events, unit_list,
                    options2, events2, unit_list2, poolVars, statVars, mcVars, pickVars >>

NextTwin == SetupTwin \/ StepTwin \/ FinalizePair

SpecTwin == InitTwin /\ [][NextTwin]_vars

TwinEventsEqual == events = events2

\* C5: two runs of a deterministic scenario without mission_split on the
\* same options give the same missions, rejections, by_type and
\* utilization.
C5_Deterministic ==
    pc = "done" =>
        /\ results.missions = results2.missions
        /\ results.rejections = results2.rejections
        /\ results.by_type = results2.by_type
        /\ results.utilization = results2.utilization

(***************************************************************************)
(* Starved runs: the same scenario, events, unit assignment and sampled    *)
(* durations; the second run's overrides give one unit a smaller count of  *)
(* one resource.                                                           *)
(***************************************************************************)
Halves(n) == 2 * n

\* The overrides that lower one count of the resources `ini` to v.
ReducedOverrides(ini) ==
    LET one(u, o) == Some([ units |-> Some([x \in {u} |-> o]) ])
    IN  UNION { { one(u, [NoUnitOverrides EXCEPT !.aircraft = Some(Halves(v))]) :
                    v \in 0..(Get(ini.aircraft_by_unit, u, 0) - 1) } :
                u \in ini.units }
        \cup
        UNION { { one(u, [NoUnitOverrides EXCEPT !.pilot = Some(Halves(v))]) :
                    v \in 0..(Get(ini.crew_by_unit, u, CrewCountsZero).pilot - 1) } :
                u \in ini.units }
        \cup
        UNION { { one(u, [NoUnitOverrides EXCEPT !.so = Some(Halves(v))]) :
                    v \in 0..(Get(ini.crew_by_unit, u, CrewCountsZero).so - 1) } :
                u \in ini.units }
        \cup
        UNION { UNION { { one(u, [NoUnitOverrides EXCEPT
                                    !.payload_by_type = Some([x \in {t} |-> Halves(v)])]) :
                            v \in 0..(ini.payload_by_unit[u][t] - 1) } :
                        t \in DOMAIN Get(ini.payload_by_unit, u, EmptyMap) } :
                u \in ini.units }

InitStarved ==
    /\ pc = "start"
    /\ scenario \in Scenarios
    /\ options \in { o \in OptionsSet : HasUnits(o.state) /\ o.overrides = NoneOpt }
    /\ options2 \in { [ state |-> options.state, overrides |-> ov ] :
                        ov \in ReducedOverrides(derive_initial_from_state(Unwrap(options.state))) }
    /\ initial = NoneOpt
    /\ events = << >> /\ events2 = << >>
    /\ idx = 0
    /\ unit_list = << >> /\ unit_list2 = << >>
    /\ pools = EmptyMap /\ pools2 = EmptyMap
    /\ results = NoneOpt /\ results2 = NoneOpt
    /\ NoPool
    /\ NoStats
    /\ NoMC
    /\ NoPick

\* Same event stream and same unit order in both runs.
SetupStarved ==
    /\ pc = "start"
    /\ pc' = "loop"
    /\ initial' = InitialOf(scenario, options)
    /\ pools' = BuildPools(InitialOf(scenario, options))
    /\ pools2' = BuildPools(InitialOf(scenario, options2))
    /\ events' \in generate_demand(scenario)
    /\ events2' = events'
    /\ results' = ResultsNew(scenario, InitialOf(scenario, options))
    /\ results2' = ResultsNew(scenario, InitialOf(scenario, options2))
    /\ unit_list' \in Perms(InitialOf(scenario, options).units)
    /\ unit_list2' = unit_list'
    /\ idx' = 0
    /\ UNCHANGED << scenario, options, options2, poolVars, statVars, mcVars, pickVars >>

\* The next event in both runs, with the same draws.
StepStarved ==
    /\ pc = "loop"
    /\ MoreEvents
    /\ \E d \in Draws(scenario, events[idx + 1]) :
          LET R  == ProcessEvent([ pools |-> pools, results |-> results ], scenario,
                                 unit_list, idx, events[idx + 1], d)
              R2 == ProcessEvent([ pools |-> pools2, results |-> results2 ], scenario,
                                 unit_list2, idx, events2[idx + 1], d)
          IN  /\ pools' = R.pools
              /\ results' = R.results
              /\ pools2' = R2.pools
              /\ results2' = R2.results
    /\ idx' = idx + 1
    /\ UNCHANGED << pc, scenario, options, initial, events, unit_list,
                    options2, events2, unit_list2, poolVars, statVars, mcVars, pickVars >>

NextStarved == SetupStarved \/ StepStarved \/ FinalizePair

SpecStarved == InitStarved /\ [][NextStarved]_vars

\* C4 (as stated): the run with the smaller count starts at most as many
\* missions as the other run.
C4_StarvationAsStated ==
    pc = "done" => results2.missions.started <= results.missions.started

\* The places of the timeline where one run has a mission and the other a
\* rejection (each event with a known mission type has one entry in each).
Differing ==
    { k \in 1..Min2(Len(results.timeline), Len(results2.timeline)) :
        results.timeline[k].type # results2.timeline[k].type }

ReducedReason ==
    LET units == Unwrap(Unwrap(options2.overrides).units)
        o     == units[CHOOSE u \in DOMAIN units : TRUE]
    IN  CASE IsSome(o.aircraft) -> "aircraft"
          [] IsSome(o.pilot) -> "pilot"
          [] IsSome(o.so) -> "so"
          [] IsSome(o.payload_by_type) -> "payload"

\* C4 (amended): the first event the two runs decide differently is started
\* by the first run and rejected by the second, for the lowered resource;
\* up to and including that event the second run has started at most as
\* many missions as the first.
C4_FirstDivergence ==
    Running =>
        /\ Len(results.timeline) = Len(results2.timeline)
        /\ Differing = {} => results2.missions.started = results.missions.started
        /\ Differing # {} =>
              LET k == CHOOSE x \in Differing : \A y \in Differing : x <= y
              IN  /\ results.timeline[k].type = "mission"
                  /\ results2.timeline[k].type = "rejection"
                  /\ results2.timeline[k].reason = ReducedReason

C4_Witness ==
    /\ pc = "done"
    /\ Differing # {}
    /\ results2.missions.started > results.missions.started

(***************************************************************************)
(* Zero horizon.                                                           *)
(***************************************************************************)
ZeroCounters(res) ==
    /\ res.missions.requested = 0
    /\ res.missions.started = 0
    /\ res.missions.completed = 0
    /\ res.missions.rejected = 0

ZeroUtilization(res) ==
    \A u \in DOMAIN res.utilization :
        /\ res.utilization[u].aircraft = 0
        /\ res.utilization[u].pilot = 0
        /\ res.utilization[u].so = 0

\* a deterministic demand that generates events and starts before time 0
StartsBeforeZero(sc) ==
    \E k \in 1..Len(sc.demand) :
        /\ UnwrapOr(sc.demand[k].demand_type, "poisson") = "deterministic"
        /\ UnwrapOr(OrOpt(sc.demand[k].every_hours, sc.demand[k].interval_hours), 1) > 0
        /\ UnwrapOr(sc.demand[k].start_at_hours, 0) < 0

\* C11 as stated: with horizon_hours = 0 a finished run has requested =
\* started = completed = rejected = 0 and utilization 0 for every unit.
C11_ZeroHorizonAsStated ==
    (pc = "done" /\ scenario.horizon_hours = 0) =>
        ZeroCounters(results) /\ ZeroUtilization(results)

\* C11 amended: with horizon_hours = 0 every utilization is 0; the four
\* counters are 0 when no deterministic demand starts before time 0, and
\* otherwise every event generated at a negative time is requested.
C11_ZeroHorizon ==
    (pc = "done" /\ scenario.horizon_hours = 0) =>
        /\ ZeroUtilization(results)
        /\ ~StartsBeforeZero(scenario) => (events = << >> /\ ZeroCounters(results))
        /\ StartsBeforeZero(scenario) =>
               (results.missions.requested = Len(events) /\ Len(events) > 0)

C11_Witness ==
    /\ pc = "done"
    /\ scenario.horizon_hours = 0
    /\ \E k \in 1..Len(scenario.demand) : ~IsSome(scenario.demand[k].demand_type)
    /\ \E u \in DOMAIN pools : pools[u].aircraft.total > 0 /\ pools[u].pilot.total > 0
    /\ ZeroCounters(results)
    /\ ZeroUtilization(results)

(***************************************************************************)
(* Input validation.                                                       *)
(***************************************************************************)
\* the units named in the overrides
OverrideUnits(opts) ==
    IF IsSome(opts.overrides) /\ IsSome(Unwrap(opts.overrides).units)
    THEN DOMAIN Unwrap(Unwrap(opts.overrides).units)
    ELSE {}

\* units the snapshot's four tables name (a unit needs one v_unit row, one
\* FMC aircraft row, one typed payload row or one staffing row)
SnapshotNamesUnit(st) ==
    \/ \E k \in DOMAIN st.v_unit : st.v_unit[k].Unit # None
    \/ \E k \in DOMAIN st.v_aircraft :
          st.v_aircraft[k].Status = "FMC" /\ st.v_aircraft[k].Unit # None
    \/ \E k \in DOMAIN st.v_payload : st.v_payload[k].Type # None
    \/ \E k \in DOMAIN st.v_staffing :
          st.v_staffing[k].UnitName # None /\ st.v_staffing[k].MOS # None

\* C12: the run ends in an error, with no event processed and no Results,
\* exactly when options.state is absent or the snapshot names no unit,
\* whatever units the overrides name.
C12_InvalidInput ==
    /\ pc # "start" =>
          (pc = "err" <=> (~IsSome(options.state) \/ ~SnapshotNamesUnit(Unwrap(options.state))))
    /\ pc = "err" =>
          /\ results = NoneOpt
          /\ idx = 0
          /\ events = << >>
          /\ pools = EmptyMap
          /\ ~ENABLED Next

C12_Witness ==
    /\ pc = "err"
    /\ IsSome(options.state)
    /\ OverrideUnits(options) # {}
    /\ results = NoneOpt

(***************************************************************************)
(* sim-native/monte: the statistics of the Monte Carlo engine.             *)
(*                                                                         *)
(* A metric value is an f64 with at most three decimals (a counter, or a   *)
(* utilization rounded to 0.001); the model holds it as an integer number  *)
(* of thousandths.  The running mean and M2 of Welford's algorithm are     *)
(* exact rationals [n, d] (the code's f64 arithmetic is taken as exact).   *)
(***************************************************************************)
ReservoirCapacity == 2  \* StreamingStatistics::new builds a reservoir of 1000
MaxStream == 4          \* values fed to one StreamingStatistics

AsF64(n) == 1000 * n

RECURSIVE GCD(_, _)
GCD(a, b) == IF b = 0 THEN a ELSE GCD(b, a % b)

Abs(x) == IF x < 0 THEN -x ELSE x

Rat(n, d) ==
    LET g == GCD(Abs(n), d)
    IN  [ n |-> n \div g, d |-> d \div g ]

RatInt(x) == [ n |-> x, d |-> 1 ]
RatAdd(a, b) == Rat(a.n * b.d + b.n * a.d, a.d * b.d)
RatSub(a, b) == Rat(a.n * b.d - b.n * a.d, a.d * b.d)
RatMul(a, b) == Rat(a.n * b.n, a.d * b.d)
RatDivInt(a, k) == Rat(a.n, a.d * k)

INFINITY == 1000000000

WelfordNew ==
    [ count |-> 0, mean |-> RatInt(0), m2 |-> RatInt(0),
      min |-> INFINITY, max |-> NEG_INFINITY ]

WelfordUpdateNoMin(w, value) ==
    LET count  == w.count + 1
        delta  == RatSub(RatInt(value), w.mean)
        mean   == RatAdd(w.mean, RatDivInt(delta, count))
        delta2 == RatSub(RatInt(value), mean)
    IN  [ count |-> count, mean |-> mean, m2 |-> RatAdd(w.m2, RatMul(delta, delta2)),
          min |-> w.min,
          max |-> IF value > w.max THEN value ELSE w.max ]

WelfordUpdate(w, value) ==
    LET count  == w.count + 1
        delta  == RatSub(RatInt(value), w.mean)
        mean   == RatAdd(w.mean, RatDivInt(delta, count))
        delta2 == RatSub(RatInt(value), mean)
    IN  [ count |-> count, mean |-> mean, m2 |-> RatAdd(w.m2, RatMul(delta, delta2)),
          min |-> IF value < w.min THEN value ELSE w.min,
          max |-> IF value > w.max THEN value ELSE w.max ]

variance(w) == IF w.count < 2 THEN RatInt(0) ELSE RatDivInt(w.m2, w.count - 1)

\* (x * 100.0).round() / 100.0 for x >= 0 held in thousandths: the nearest
\* hundredth, halves away from zero, again in thousandths.
Round2Floor(x) == 10 * (x.n \div (10 * x.d))

Round2(x) == 10 * ((2 * x.n + 10 * x.d) \div (20 * x.d))

\* (v.sqrt() * 100.0).round() / 100.0 for a variance v >= 0 in thousandths
\* squared: 10 * k for the k >= 0 with (k - 1/2)^2 <= v / 100 < (k + 1/2)^2.
RECURSIVE RoundSqrtFrom(_, _)
RoundSqrtFrom(v, k) ==
    IF 4 * v.n < (2 * k + 1) * (2 * k + 1) * 100 * v.d THEN k
    ELSE RoundSqrtFrom(v, k + 1)

Round2Sqrt(v) == 10 * RoundSqrtFrom(v, 0)

\* DefaultHasher::new() has fixed keys, so the two hashes the reservoir takes
\* of its count are two fixed functions of the count; a Hasher is one choice
\* of them on the counts above the capacity.
Hashers(maxCount) ==
    [ hash1 : [(ReservoirCapacity + 1)..maxCount -> 0..ReservoirCapacity],
      hash2 : [(ReservoirCapacity + 1)..maxCount -> 0..ReservoirCapacity] ]

ReservoirNew(capacity) == [ sample |-> << >>, count |-> 0, capacity |-> capacity ]

\* update without the capacity test: every value is pushed
ReservoirUpdateAlwaysPush(r, value, H) ==
    [r EXCEPT !.count = r.count + 1, !.sample = Append(@, value)]

ReservoirUpdate(r, value, H) ==
    LET count == r.count + 1
    IN  IF Len(r.sample) < r.capacity
        THEN [r EXCEPT !.count = count, !.sample = Append(@, value)]
        ELSE LET random_val == H.hash1[count] % count
                 index == H.hash2[count] % r.capacity
             IN  IF random_val < r.capacity
                 THEN [r EXCEPT !.count = count, !.sample[index + 1] = value]
                 ELSE [r EXCEPT !.count = count]

RECURSIVE InsertNum(_, _)
InsertNum(sorted, x) ==
    IF sorted = << >> THEN << x >>
    ELSE IF x < sorted[Len(sorted)]
         THEN Append(InsertNum(SubSeq(sorted, 1, Len(sorted) - 1), x), sorted[Len(sorted)])
         ELSE Append(sorted, x)

RECURSIVE SortNum(_)
SortNum(s) ==
    IF s = << >> THEN << >>
    ELSE InsertNum(SortNum(SubSeq(s, 1, Len(s) - 1)), s[Len(s)])

Percents == { 10, 25, 50, 75, 90, 95, 99 }

\* ((p / 100) * len).ceil() - 1, clamped to 0..len-1; sequences start at 1
PercentileIndex(p, len) ==
    LET index == ((p * len + 99) \div 100) - 1
        clamped == Min2(IF index > 0 THEN index ELSE 0, len - 1)
    IN  clamped + 1

percentiles_unsorted(r) ==
    IF r.sample = << >> THEN EmptyMap
    ELSE [p \in Percents |-> r.sample[PercentileIndex(p, Len(r.sample))]]

percentiles(r) ==
    IF r.sample = << >> THEN EmptyMap
    ELSE LET sorted == SortNum(r.sample)
         IN  [p \in Percents |-> sorted[PercentileIndex(p, Len(sorted))]]

StreamingStatisticsNew ==
    [ welford |-> WelfordNew, reservoir |-> ReservoirNew(ReservoirCapacity) ]

StreamingUpdate(st, value, H) ==
    [ welford |-> WelfordUpdate(st.welford, value),
      reservoir |-> ReservoirUpdate(st.reservoir, value, H) ]

\* StreamingStatistics::finalize: None for an empty stream
StreamingFinalize(st) ==
    IF st.welford.count = 0 THEN NoneOpt
    ELSE LET pct == percentiles(st.reservoir)
         IN  Some([ mean |-> Round2(st.welford.mean),
                    p10 |-> Get(pct, 10, 0), p25 |-> Get(pct, 25, 0),
                    p50 |-> Get(pct, 50, 0), p75 |-> Get(pct, 75, 0),
                    p90 |-> Get(pct, 90, 0), p95 |-> Get(pct, 95, 0),
                    p99 |-> Get(pct, 99, 0),
                    min |-> st.welford.min, max |-> st.welford.max,
                    stddev |-> Round2Sqrt(variance(st.welford)) ])

RECURSIVE StreamingFold(_, _, _)
StreamingFold(st, values, H) ==
    IF values = << >> THEN st
    ELSE StreamingFold(StreamingUpdate(st, Head(values), H), Tail(values), H)

(***************************************************************************)
(* One StreamingStatistics fed a stream of values, then finalized.         *)
(***************************************************************************)
StatValues == { 0, 667, AsF64(1) }

InitStats ==
    /\ pc = "stats"
    /\ hasher \in Hashers(MaxStream)
    /\ fed = << >>
    /\ stats = StreamingStatisticsNew
    /\ stat_out = NoneOpt
    /\ NoDes
    /\ NoRun2
    /\ NoPool
    /\ NoMC
    /\ NoPick

StatsUpdate ==
    /\ pc = "stats"
    /\ Len(fed) < MaxStream
    /\ \E value \in StatValues :
          /\ fed' = Append(fed, value)
          /\ stats' = StreamingUpdate(stats, value, hasher)
    /\ UNCHANGED << pc, hasher, stat_out, desVars, run2Vars, poolVars, mcVars, pickVars >>

StatsFinalize ==
    /\ pc = "stats"
    /\ stat_out' = StreamingFinalize(stats)
    /\ pc' = "stats_done"
    /\ UNCHANGED << hasher, fed, stats, desVars, run2Vars, poolVars, mcVars, pickVars >>

NextStats == StatsUpdate \/ StatsFinalize

SpecStats == InitStats /\ [][NextStats]_vars

\* the same multiset of values folded in ascending order
FoldedSorted == StreamingFold(StreamingStatisticsNew, SortNum(fed), hasher)

\* C15 as stated: whatever the order of the folds, the Welford statistics
\* and the percentiles are those of any other order of the same values,
\* also when there are more values than the reservoir holds.
C15_OrderIndependentAsStated ==
    pc = "stats_done" =>
        /\ stats.welford = FoldedSorted.welford
        /\ stat_out = StreamingFinalize(FoldedSorted)

\* C15 amended: count, mean, M2 (so variance), min and max do not depend on
\* the order of the folds; the percentiles do not depend on it while the
\* number of values is at most the reservoir capacity.
C15_OrderIndependent ==
    pc = "stats_done" =>
        /\ stats.welford = FoldedSorted.welford
        /\ Len(fed) <= ReservoirCapacity => stat_out = StreamingFinalize(FoldedSorted)

C15_Witness ==
    /\ pc = "stats_done"
    /\ Len(fed) = ReservoirCapacity
    /\ fed # SortNum(fed)
    /\ stats.welford.count = ReservoirCapacity
    /\ stat_out = StreamingFinalize(FoldedSorted)

\* C17: for a non-empty stream of any length, p10 <= p25 <= p50 <= p75 <=
\* p90 <= p95 <= p99, min <= p10 and p99 <= max.
C17_PercentileOrder ==
    (pc = "stats_done" /\ fed # << >>) =>
        /\ IsSome(stat_out)
        /\ LET a == Unwrap(stat_out)
           IN  /\ a.min <= a.p10
               /\ a.p10 <= a.p25
               /\ a.p25 <= a.p50
               /\ a.p50 <= a.p75
               /\ a.p75 <= a.p90
               /\ a.p90 <= a.p95
               /\ a.p95 <= a.p99
               /\ a.p99 <= a.max

C17_Witness ==
    /\ pc = "stats_done"
    /\ Len(fed) > ReservoirCapacity
    /\ IsSome(stat_out)
    /\ Unwrap(stat_out).min < Unwrap(stat_out).p10
    /\ Unwrap(stat_out).p10 < Unwrap(stat_out).p99
    /\ Unwrap(stat_out).p99 <= Unwrap(stat_out).max

AllEqual(s, v) == s # << >> /\ \A k \in DOMAIN s : s[k] = v

\* the statistics of a stream whose values all equal v, with the given mean
ConstantStats(a, v, mean) ==
    /\ a.mean = mean
    /\ a.stddev = 0
    /\ a.min = v /\ a.max = v
    /\ a.p10 = v /\ a.p25 = v /\ a.p50 = v /\ a.p75 = v
    /\ a.p90 = v /\ a.p95 = v /\ a.p99 = v

\* C18 as stated: when the N >= 1 values all equal v, mean = v, stddev = 0,
\* min = max = v and every percentile is v.
C18_ConstantStreamAsStated ==
    \A v \in StatValues :
        (pc = "stats_done" /\ AllEqual(fed, v)) =>
            IsSome(stat_out) /\ ConstantStats(Unwrap(stat_out), v, v)

\* C18 amended: the same, with mean = v rounded to two decimals.
C18_ConstantStream ==
    \A v \in StatValues :
        (pc = "stats_done" /\ AllEqual(fed, v)) =>
            IsSome(stat_out) /\ ConstantStats(Unwrap(stat_out), v, 10 * ((v + 5) \div 10))

C18_Witness ==
    /\ pc = "stats_done"
    /\ Len(fed) > ReservoirCapacity
    /\ AllEqual(fed, 667)
    /\ IsSome(stat_out)
    /\ Unwrap(stat_out).mean = 670
    /\ Unwrap(stat_out).p50 = 667

(***************************************************************************)
(* sim-native/monte: run_monte_carlo_internal.                             *)
(*                                                                         *)
(* One call of run_simulation_internal_ref, as the set of values it can    *)
(* return: the Setup, Step and Finalize steps above run to the end.        *)
(***************************************************************************)
RECURSIVE RunFrom(_, _, _, _, _)
RunFrom(R, sc, ulist, evs, i) ==
    IF i < Len(evs) /\ ~(evs[i + 1].time > sc.horizon_hours)
    THEN UNION { RunFrom(ProcessEvent(R, sc, ulist, i, evs[i + 1], d), sc, ulist, evs, i + 1) :
                   d \in Draws(sc, evs[i + 1]) }
    ELSE { Finalized(R, ulist, sc.horizon_hours) }

run_simulation_internal_ref(sc, opts) ==
    IF InvalidInput(sc, opts) THEN { [ ok |-> FALSE ] }
    ELSE LET ini == ApplyOverrides(derive_initial_from_state(Unwrap(opts.state)), sc, opts)
         IN  UNION { { [ ok |-> TRUE, results |-> r ] :
                         r \in RunFrom([ pools |-> BuildPools(ini),
                                         results |-> ResultsNew(sc, ini) ],
                                       sc, ulist, evs, 0) } :
                       evs \in generate_demand(sc), ulist \in Perms(ini.units) }

\* options.iterations is in 0..MaxIterations: no more iterations than the
\* reservoirs hold
MaxIterations == ReservoirCapacity

\* the threads of the rayon pool
Workers == { "w1", "w2" }

NoOwner == "free"

\* dropping a MutexGuard
ReleaseNever(l, name) == l

Release(l, name) == [l EXCEPT ![name] = NoOwner]

StreamingAggregatorNew ==
    [ missions |-> EmptyMap, rejections |-> EmptyMap,
      utilization |-> EmptyMap, by_type |-> EmptyMap ]

\* map.entry(key).or_insert_with(StreamingStatistics::new).update(value)
EntryUpdate(map, key, value, H) ==
    Put(map, key, StreamingUpdate(Get(map, key, StreamingStatisticsNew), value, H))

MissionStatsUpdate(map, ms, H) ==
    EntryUpdate(EntryUpdate(EntryUpdate(EntryUpdate(map,
        "requested", AsF64(ms.requested), H),
        "started", AsF64(ms.started), H),
        "completed", AsF64(ms.completed), H),
        "rejected", AsF64(ms.rejected), H)

RejectionsUpdate(map, rj, H) ==
    EntryUpdate(EntryUpdate(EntryUpdate(EntryUpdate(map,
        "aircraft", AsF64(rj.aircraft), H),
        "pilot", AsF64(rj.pilot), H),
        "so", AsF64(rj.so), H),
        "payload", AsF64(rj.payload), H)

UtilizationUpdate(map, util, H) ==
    EntryUpdate(EntryUpdate(EntryUpdate(map,
        "aircraft", util.aircraft, H),
        "pilot", util.pilot, H),
        "so", util.so, H)

\* for (unit, util) in &result.utilization: every step touches its own
\* unit's entry only
UtilizationNested(map, of, H) ==
    [k \in (DOMAIN map) \cup (DOMAIN of) |->
        IF k \in DOMAIN of THEN UtilizationUpdate(Get(map, k, EmptyMap), of[k], H)
        ELSE map[k]]

\* for (mission_type, stats) in &result.by_type
ByTypeNested(map, of, H) ==
    [k \in (DOMAIN map) \cup (DOMAIN of) |->
        IF k \in DOMAIN of THEN MissionStatsUpdate(Get(map, k, EmptyMap), of[k], H)
        ELSE map[k]]

\* process_iteration without its "Process rejections" block
process_iteration_missions_only(agg, result, H) ==
    [ missions    |-> MissionStatsUpdate(agg.missions, result.missions, H),
      rejections  |-> agg.rejections,
      utilization |-> UtilizationNested(agg.utilization, result.utilization, H),
      by_type     |-> ByTypeNested(agg.by_type, result.by_type, H) ]

process_iteration(agg, result, H) ==
    [ missions    |-> MissionStatsUpdate(agg.missions, result.missions, H),
      rejections  |-> RejectionsUpdate(agg.rejections, result.rejections, H),
      utilization |-> UtilizationNested(agg.utilization, result.utilization, H),
      by_type     |-> ByTypeNested(agg.by_type, result.by_type, H) ]

\* into_iter().filter_map(|(k, v)| v.finalize().map(|s| (k, s))).collect()
FinalizeMap(map) ==
    [k \in {x \in DOMAIN map : IsSome(StreamingFinalize(map[x]))} |->
        Unwrap(StreamingFinalize(map[k]))]

FinalizeNested(map) ==
    [k \in {x \in DOMAIN map : DOMAIN FinalizeMap(map[x]) # {}} |-> FinalizeMap(map[k])]

AggregatorFinalize(agg) ==
    [ missions |-> FinalizeMap(agg.missions), rejections |-> FinalizeMap(agg.rejections),
      utilization |-> FinalizeNested(agg.utilization),
      by_type |-> FinalizeNested(agg.by_type) ]

\* first.as_ref().map(|r| r.initial_resources.clone())
FirstInitialResourcesOrDefault(first) ==
    IF IsSome(first) THEN Some(Unwrap(first).initial_resources)
    ELSE Some([ units |-> {}, aircraft_by_unit |-> EmptyMap, crew_by_unit |-> EmptyMap,
                payload_by_unit |-> EmptyMap, overrides_applied |-> FALSE ])

FirstInitialResources(first) ==
    IF IsSome(first) THEN Some(Unwrap(first).initial_resources) ELSE NoneOpt

\* if keep_iterations { Some(stored.clone()) } else { None }
IterationsDataAlways(keep, stored) == Some(stored)

IterationsData(keep, stored) == IF keep THEN Some(stored) ELSE NoneOpt

Err(msg, i) == [ ok |-> FALSE, error |-> msg, iteration |-> i ]

\* what follows `result?` on the success path
MonteCarloReturn(sc, n, keep, agg, first, stored) ==
    LET a == AggregatorFinalize(agg)
        initial_resources == FirstInitialResources(first)
    IN  IF ~IsSome(initial_resources) THEN Err("No iterations completed", NoneOpt)
        ELSE [ ok |-> TRUE,
               iterations |-> n,
               horizon_hours |-> sc.horizon_hours,
               missions |-> a.missions, rejections |-> a.rejections,
               utilization |-> a.utilization, by_type |-> a.by_type,
               iterations_data |-> IterationsData(keep, stored),
               initial_resources |-> Unwrap(initial_resources) ]

\* One mission at time 0 whose flight time is random.
ScenarioMC ==
    [ horizon_hours |-> 2,
      demand |-> << DetDemand("cargo", 2, NoneOpt) >>,
      mission_types |-> << Cargo(Tri) >>,
      process_times |-> NoneOpt, unit_policy |-> NoneOpt ]

MonteCarloOptionsSet ==
    [ iterations : { Some(n) : n \in 0..MaxIterations },
      keep_iterations : { NoneOpt, Some(FALSE), Some(TRUE) },
      state : { NoneOpt, Some(Snapshot(<< << "A", 1, 1, 0, << >> >> >>)) },
      overrides : { NoneOpt } ]

IdleWorker == [ pc |-> "idle", i |-> 0, result |-> NoneOpt ]

Locks == { "first_result", "aggregator", "stored_results" }

InitMC ==
    /\ pc = "mc_start"
    /\ scenario \in { Scenario1, ScenarioMC }
    /\ mc_options \in MonteCarloOptionsSet
    /\ options = NoneOpt
    /\ hasher \in Hashers(MaxIterations)
    /\ iterations = 0 /\ keep_iterations = FALSE
    /\ remaining = {} /\ workers = EmptyMap /\ locks = EmptyMap
    /\ aggregator = NoneOpt /\ first_result = NoneOpt /\ stored_results = << >>
    /\ task_errors = {} /\ mc_out = NoneOpt
    /\ initial = NoneOpt /\ events = << >> /\ idx = 0 /\ unit_list = << >>
    /\ pools = EmptyMap /\ results = NoneOpt
    /\ fed = << >> /\ stats = NoneOpt /\ stat_out = NoneOpt
    /\ NoRun2
    /\ NoPool
    /\ NoPick

idleVars == << initial, events, idx, unit_list, pools, results, fed, stats, stat_out,
               run2Vars, poolVars, pickVars >>

\* From entry to pool.install: the options are unpacked, the thread pool is
\* built (or its construction fails) and the three mutexes are created.
McStart ==
    /\ pc = "mc_start"
    /\ iterations' = UnwrapOr(mc_options.iterations, MaxIterations)
    /\ keep_iterations' = UnwrapOr(mc_options.keep_iterations, FALSE)
    /\ options' = [ state |-> mc_options.state, overrides |-> mc_options.overrides ]
    /\ \/ /\ pc' = "mc_err"
          /\ mc_out' = Err("Failed to create thread pool", NoneOpt)
          /\ UNCHANGED << remaining, workers, locks, aggregator >>
       \/ /\ pc' = "mc_run"
          /\ remaining' = 0..(UnwrapOr(mc_options.iterations, MaxIterations) - 1)
          /\ workers' = [w \in Workers |-> IdleWorker]
          /\ locks' = [l \in Locks |-> NoOwner]
          /\ aggregator' = StreamingAggregatorNew
          /\ mc_out' = NoneOpt
    /\ UNCHANGED << scenario, mc_options, hasher, first_result, stored_results,
                    task_errors, idleVars >>

mcFixed == << pc, scenario, options, mc_options, hasher, iterations, keep_iterations,
              mc_out, idleVars >>

\* A worker takes the next item of the parallel iterator; try_for_each
\* hands out no item once a task has returned Err.
TakeIteration(w) ==
    /\ pc = "mc_run"
    /\ workers[w].pc = "idle"
    /\ task_errors = {}
    /\ \E i \in remaining :
          /\ remaining' = remaining \ {i}
          /\ workers' = [workers EXCEPT ![w] = [ pc |-> "des", i |-> i, result |-> NoneOpt ]]
    /\ UNCHANGED << locks, aggregator, first_result, stored_results, task_errors, mcFixed >>

\* run_simulation_internal_ref(...).map_err(...)?
RunDes(w) ==
    /\ pc = "mc_run"
    /\ workers[w].pc = "des"
    /\ \E o \in run_simulation_internal_ref(scenario, options) :
          IF o.ok
          THEN /\ workers' = [workers EXCEPT ![w].pc = "want_first",
                                             ![w].result = Some(o.results)]
               /\ UNCHANGED task_errors
          ELSE /\ workers' = [workers EXCEPT ![w] = IdleWorker]
               /\ task_errors' = task_errors \cup { workers[w].i }
    /\ UNCHANGED << remaining, locks, aggregator, first_result, stored_results, mcFixed >>

\* mutex.lock(): waits until the mutex is free
Lock(w, l, from, to) ==
    /\ pc = "mc_run"
    /\ workers[w].pc = from
    /\ locks[l] = NoOwner
    /\ locks' = [locks EXCEPT ![l] = w]
    /\ workers' = [workers EXCEPT ![w].pc = to]
    /\ UNCHANGED << remaining, aggregator, first_result, stored_results, task_errors, mcFixed >>

LockFirst(w) == Lock(w, "first_result", "want_first", "in_first")

\* if first.is_none() { *first = Some(result.clone()) }, and the guard dropped
StoreFirst(w) ==
    /\ pc = "mc_run"
    /\ workers[w].pc = "in_first"
    /\ first_result' = IF IsSome(first_result) THEN first_result ELSE workers[w].result
    /\ locks' = Release(locks, "first_result")
    /\ workers' = [workers EXCEPT ![w].pc = "want_agg"]
    /\ UNCHANGED << remaining, aggregator, stored_results, task_errors, mcFixed >>

LockAggregator(w) == Lock(w, "aggregator", "want_agg", "in_agg")

\* agg.process_iteration(&result), and the guard dropped; the task is over
\* here unless keep_iterations
Fold(w) ==
    /\ pc = "mc_run"
    /\ workers[w].pc = "in_agg"
    /\ aggregator' = process_iteration(aggregator, Unwrap(workers[w].result), hasher)
    /\ locks' = Release(locks, "aggregator")
    /\ workers' = IF keep_iterations
                  THEN [workers EXCEPT ![w].pc = "want_stored"]
                  ELSE [workers EXCEPT ![w] = IdleWorker]
    /\ UNCHANGED << remaining, first_result, stored_results, task_errors, mcFixed >>

LockStored(w) == Lock(w, "stored_results", "want_stored", "in_stored")

\* stored.push(result), and the guard dropped; Ok(())
Store(w) ==
    /\ pc = "mc_run"
    /\ workers[w].pc = "in_stored"
    /\ stored_results' = Append(stored_results, Unwrap(workers[w].result))
    /\ locks' = Release(locks, "stored_results")
    /\ workers' = [workers EXCEPT ![w] = IdleWorker]
    /\ UNCHANGED << remaining, aggregator, first_result, task_errors, mcFixed >>

\* pool.install returns: every started task is over and no item is left,
\* or a task has returned Err.  Then `result?` and the rest of the function.
McReturn ==
    /\ pc = "mc_run"
    /\ \A w \in Workers : workers[w].pc = "idle"
    /\ remaining = {} \/ task_errors # {}
    /\ IF task_errors # {}
       THEN /\ pc' = "mc_err"
            /\ \E i \in task_errors : mc_out' = Err("DES simulation failed at iteration", Some(i))
       ELSE LET out == MonteCarloReturn(scenario, iterations, keep_iterations, aggregator,
                                        first_result, stored_results)
            IN  /\ mc_out' = out
                /\ pc' = IF out.ok THEN "mc_ok" ELSE "mc_err"
    /\ UNCHANGED << scenario, options, mc_options, hasher, iterations, keep_iterations,
                    remaining, workers, locks, aggregator, first_result, stored_results,
                    task_errors, idleVars >>

WorkerStep(w) ==
    \/ TakeIteration(w)
    \/ RunDes(w)
    \/ LockFirst(w)
    \/ StoreFirst(w)
    \/ LockAggregator(w)
    \/ Fold(w)
    \/ LockStored(w)
    \/ Store(w)

NextMC == McStart \/ (\E w \in Workers : WorkerStep(w)) \/ McReturn

SpecMC == InitMC /\ [][NextMC]_vars

\* The guard of each step of a worker, and of the whole call.
WorkerEnabled(w) ==
    \/ workers[w].pc = "idle" /\ task_errors = {} /\ remaining # {}
    \/ workers[w].pc \in { "des", "in_first", "in_agg", "in_stored" }
    \/ workers[w].pc = "want_first" /\ locks["first_result"] = NoOwner
    \/ workers[w].pc = "want_agg" /\ locks["aggregator"] = NoOwner
    \/ workers[w].pc = "want_stored" /\ locks["stored_results"] = NoOwner

EnabledMC ==
    \/ pc = "mc_start"
    \/ /\ pc = "mc_run"
       /\ \/ \E w \in Workers : WorkerEnabled(w)
          \/ /\ \A w \in Workers : workers[w].pc = "idle"
             /\ remaining = {} \/ task_errors # {}

\* The threads are scheduled: as long as some thread can take a step, a step
\* is eventually taken.  This is WF_vars(NextMC), with ENABLED written out as
\* the guards of the steps.
SpecMCFair == SpecMC /\ ([]<>(~EnabledMC) \/ []<><<NextMC>>_vars)

(***************************************************************************)
(* Properties of run_monte_carlo_internal.                                 *)
(***************************************************************************)
McReturned == pc \in { "mc_ok", "mc_err" }

\* C13: with iterations = 0 the call returns an error and no
\* MonteCarloResults.
C13_ZeroIterations ==
    mc_options.iterations = Some(0) =>
        /\ pc # "mc_ok"
        /\ McReturned => (pc = "mc_err" /\ ~mc_out.ok)

C13_Witness ==
    /\ pc = "mc_err"
    /\ mc_options.iterations = Some(0)
    /\ IsSome(mc_options.state)
    /\ mc_out = Err("No iterations completed", NoneOpt)

\* number of results folded into the aggregator
Folded(agg) ==
    IF "requested" \in DOMAIN agg.missions
    THEN agg.missions["requested"].welford.count
    ELSE 0

HeldBy(w) == { l \in DOMAIN locks : locks[l] = w }

NoTwoLocks == \A w \in Workers : Cardinality(HeldBy(w)) <= 1

OkOutcome ==
    /\ pc = "mc_ok" /\ mc_out.ok
    /\ task_errors = {}
    /\ Folded(aggregator) = iterations
    /\ remaining = {}

DesErrOutcome ==
    /\ pc = "mc_err" /\ ~mc_out.ok
    /\ mc_out.error = "DES simulation failed at iteration"
    /\ IsSome(mc_out.iteration)
    /\ Unwrap(mc_out.iteration) \in task_errors

\* the thread pool was built and pool.install ran
Installed == workers # EmptyMap

\* C14 as stated, its safety part: no worker holds two mutexes, and once the
\* workers have run the call ends either Ok with all N iterations folded or
\* Err with a DES failure and its iteration index.
C14_TwoOutcomesAsStated ==
    /\ NoTwoLocks
    /\ (McReturned /\ Installed) => (OkOutcome \/ DesErrOutcome)

DriverErrOutcome ==
    /\ pc = "mc_err" /\ ~mc_out.ok
    /\ task_errors = {}
    /\ \/ mc_out = Err("Failed to create thread pool", NoneOpt) /\ ~Installed
       \/ mc_out = Err("No iterations completed", NoneOpt) /\ Installed /\ iterations = 0

C14_Outcomes ==
    /\ NoTwoLocks
    /\ McReturned => (OkOutcome \/ DesErrOutcome \/ DriverErrOutcome)
    /\ pc = "mc_ok" => iterations >= 1

\* C14 amended: under every interleaving of the workers the call returns, no
\* worker ever holds two of the mutexes, and it ends Ok with all N >= 1
\* iterations folded, or Err with a DES failure and its iteration index, or
\* Err without an index (the thread pool was not built, or iterations = 0).
C14_Terminates == [](C14_Outcomes) /\ <>(McReturned)

\* two workers at the same mutex
C14_Witness ==
    /\ pc = "mc_run"
    /\ \E w1, w2 \in Workers :
          /\ workers[w1].pc = "in_agg"
          /\ workers[w2].pc = "want_agg"
          /\ ~ENABLED LockAggregator(w2)

\* C16: in a successful run iterations_data is present iff keep_iterations
\* is true, and then holds one Results per iteration.
C16_IterationsData ==
    pc = "mc_ok" =>
        /\ IsSome(mc_out.iterations_data) <=> (mc_options.keep_iterations = Some(TRUE))
        /\ IsSome(mc_out.iterations_data) =>
              LET data == Unwrap(mc_out.iterations_data)
              IN  /\ Len(data) = mc_out.iterations
                  /\ Len(data) = Folded(aggregator)
                  /\ \A k \in DOMAIN data :
                        [ ok |-> TRUE, results |-> data[k] ]
                            \in run_simulation_internal_ref(scenario, options)

C16_Witness ==
    /\ pc = "mc_ok"
    /\ mc_options.keep_iterations = Some(TRUE)
    /\ Len(Unwrap(mc_out.iterations_data)) = MaxIterations
    /\ Unwrap(mc_out.iterations_data)[1] # Unwrap(mc_out.iterations_data)[2]

(***************************************************************************)
(* Overrides.                                                              *)
(***************************************************************************)
\* the per-unit overrides of the options, as a map (empty when there are none)
UnitsOverrides(opts) ==
    IF IsSome(opts.overrides) /\ IsSome(Unwrap(opts.overrides).units)
    THEN Unwrap(Unwrap(opts.overrides).units)
    ELSE EmptyMap

\* an override value (held in halves) replaces a count when it is >= 0
Overridden(value, old) ==
    IF IsSome(value) /\ Unwrap(value) >= 0 THEN Unwrap(value) \div 2 ELSE old

PayloadCount(ini, u, t) == Get(Get(ini.payload_by_unit, u, EmptyMap), t, 0)

PayloadTypes(ini, u) == DOMAIN Get(ini.payload_by_unit, u, EmptyMap)

Crew(ini, u) == Get(ini.crew_by_unit, u, CrewCountsZero)

\* the counts of unit u after its overrides o, from the counts in base
OverriddenUnit(ini, base, sc, u, o) ==
    LET by     == IF IsSome(o.payload_by_type) THEN Unwrap(o.payload_by_type) ELSE EmptyMap
        given  == { t \in DOMAIN by : by[t] >= 0 }
        known  == PayloadTypes(base, u) \cup given
        needed == UNION { { sc.mission_types[k].required_payload_types[j] :
                              j \in DOMAIN sc.mission_types[k].required_payload_types } :
                            k \in DOMAIN sc.mission_types }
        uniform == IsSome(o.payload_per_type) /\ Unwrap(o.payload_per_type) >= 0
    IN  /\ Get(ini.aircraft_by_unit, u, 0)
             = Overridden(o.aircraft, Get(base.aircraft_by_unit, u, 0))
        /\ Crew(ini, u).pilot = Overridden(o.pilot, Crew(base, u).pilot)
        /\ Crew(ini, u).so = Overridden(o.so, Crew(base, u).so)
        /\ PayloadTypes(ini, u) = IF uniform THEN known \cup needed ELSE known
        /\ \A t \in PayloadTypes(ini, u) :
              PayloadCount(ini, u, t) =
                 IF uniform THEN Unwrap(o.payload_per_type) \div 2
                 ELSE IF t \in given THEN by[t] \div 2
                 ELSE PayloadCount(base, u, t)

UnchangedUnit(ini, base, u) ==
    /\ Get(ini.aircraft_by_unit, u, 0) = Get(base.aircraft_by_unit, u, 0)
    /\ Crew(ini, u) = Crew(base, u)
    /\ Get(ini.payload_by_unit, u, EmptyMap) = Get(base.payload_by_unit, u, EmptyMap)

\* C19: the initial resources the run uses are the snapshot's with every
\* overridden unit added; a value >= 0 replaces its count (floored), a
\* negative one leaves it; payload_by_type is applied first and
\* payload_per_type >= 0 then sets every type known for the unit or required
\* by a mission type; other units keep their counts.
C19_Overrides ==
    Running =>
        LET base == derive_initial_from_state(Unwrap(options.state))
            ov   == UnitsOverrides(options)
        IN  /\ initial.units = base.units \cup DOMAIN ov
            /\ \A u \in DOMAIN ov : OverriddenUnit(initial, base, scenario, u, ov[u])
            /\ \A u \in base.units \ DOMAIN ov : UnchangedUnit(initial, base, u)
            /\ results.initial_resources = initial
            /\ pools = BuildPools(initial) \/ idx > 0

C19_Witness ==
    /\ Running
    /\ "B" \in DOMAIN UnitsOverrides(options)
    /\ "B" \notin derive_initial_from_state(Unwrap(options.state)).units
    /\ "A" \in initial.units /\ "B" \in initial.units
    /\ UnitsOverrides(options)["B"].so = Some(-1)
    /\ UnitsOverrides(options)["B"].pilot = Some(3)
    /\ Crew(initial, "B") = [ pilot |-> 1, so |-> 0 ]
    /\ PayloadCount(initial, "B", "eo") = 1

\* payload_by_type and payload_per_type given together
C19_WitnessBoth ==
    /\ Running
    /\ "A" \in DOMAIN UnitsOverrides(options)
    /\ IsSome(UnitsOverrides(options)["A"].payload_by_type)
    /\ UnitsOverrides(options)["A"].payload_per_type = Some(3)
    /\ PayloadCount(initial, "A", "ir") = 1
    /\ PayloadCount(initial, "A", "eo") = 1

(***************************************************************************)
(* The acquisition step.                                                   *)
(***************************************************************************)
PoolsOf(up) ==
    { up.aircraft, up.pilot, up.so } \cup { up.payloads[t] : t \in DOMAIN up.payloads }

\* C20: try_acquire is called in the acquisition step only, so "every
\* try_acquire call of an admitted event returns true" is: no pool ever
\* counts a denial.
C20_AcquisitionNeverFails ==
    Running => \A u \in DOMAIN pools : \A p \in PoolsOf(pools[u]) : p.denials = 0

(***************************************************************************)
(* generate_demand and the order of processing.  The scenarios give each   *)
(* demand spec a mission type name of its own, so the events of one spec   *)
(* are the events of its name.                                             *)
(***************************************************************************)
TimesOf(evs, name) ==
    LET mine == SelectSeq(evs, LAMBDA e : e.mission_type = name)
    IN  [k \in 1..Len(mine) |-> mine[k].time]

\* s, s + every, s + 2 every, ... below the horizon (every > 0)
ArithmeticTimes(s, every, horizon) ==
    LET n == IF s < horizon THEN ((horizon - s - 1) \div every) + 1 ELSE 0
    IN  [k \in 1..n |-> s + (k - 1) * every]

IsDeterministicDemand(d) == UnwrapOr(d.demand_type, "poisson") = "deterministic"

EveryOf(d) == UnwrapOr(OrOpt(d.every_hours, d.interval_hours), 1)

C21_WitnessPoisson ==
    /\ Running
    /\ events # << >>
    /\ \E k \in DOMAIN scenario.demand :
          ~IsDeterministicDemand(scenario.demand[k])
          /\ UnwrapOr(scenario.demand[k].rate_per_hour, 0) <= 0

\* the time a timeline entry was made for
EntryTime(item) == IF item.type = "mission" THEN item.demand_time ELSE item.time

\* C22: the generated list is in nondecreasing time order and has no event
\* after the horizon; the loop takes the events in that order and takes
\* every one of them, an event at time = horizon too, so that at the end
\* missions.requested is the number of generated events.
C22_EventOrder ==
    Running =>
        /\ \A k \in 1..(Len(events) - 1) : events[k].time <= events[k + 1].time
        /\ \A k \in DOMAIN events : events[k].time <= scenario.horizon_hours
        /\ results.missions.requested = idx
        /\ \A k \in 1..(Len(results.timeline) - 1) :
              EntryTime(results.timeline[k]) <= EntryTime(results.timeline[k + 1])
        /\ \A k \in DOMAIN results.timeline :
              idx > 0 /\ EntryTime(results.timeline[k]) <= events[idx].time
        /\ pc = "done" => idx = Len(events)

C22_Witness ==
    /\ pc = "done"
    /\ scenario.horizon_hours > 0
    /\ Len(events) >= 3
    /\ events[Len(events)].time = scenario.horizon_hours
    /\ events[1].time < events[Len(events)].time
    /\ \E k \in 1..(Len(events) - 1) :
          events[k].mission_type # events[1].mission_type
          /\ events[k + 1].mission_type = events[1].mission_type
    /\ results.missions.requested = Len(events)
    /\ EntryTime(results.timeline[Len(results.timeline)]) = scenario.horizon_hours

(***************************************************************************)
(* The admission check, event by event.  Each event with a known mission   *)
(* type adds one timeline entry, which names the unit picked for it.       *)
(***************************************************************************)
\* the loop takes the event events[idx + 1], of a known mission type
TakesKnownEvent ==
    /\ pc = "loop" /\ pc' = "loop"
    /\ idx' = idx + 1
    /\ events[idx + 1].mission_type \in MissionTypeNames(scenario)

\* the timeline entry made for the event just taken
NewEntry == results'.timeline[Len(results'.timeline)]

\* what available_at(time) returns on pool p
Avail(p, time) == available_at(p, time).avail

\* the first check of the admission check that `up` fails at `time`, in the
\* order payloads, aircraft, pilots, SOs; "none" if it passes all
FirstInsufficient(up, mt, time) ==
    IF \E k \in DOMAIN mt.required_payload_types :
          Avail(Get(up.payloads, mt.required_payload_types[k], ResourcePoolNew(0)), time) < 1
    THEN "payload"
    ELSE IF Avail(up.aircraft, time) < 1 THEN "aircraft"
    ELSE IF NeedPilot(mt) > 0 /\ Avail(up.pilot, time) < NeedPilot(mt) THEN "pilot"
    ELSE IF NeedSo(mt) > 0 /\ Avail(up.so, time) < NeedSo(mt) THEN "so"
    ELSE "none"

ReasonCounters == { "aircraft", "pilot", "so", "payload" }

\* C23: an event is rejected by the admission check exactly when one of the
\* checks payloads (>= 1 of each required type, 0 for a type without pool),
\* aircraft (>= 1), pilots (>= need_pilot if > 0), SOs (>= need_so if > 0)
\* is insufficient; the reason of its Rejection entry is the first
\* insufficient check in this order, and that reason's counter alone is
\* incremented, by 1.
C23_AdmissionOrder ==
    [][ TakesKnownEvent =>
          LET ev  == events[idx + 1]
              mt  == LookupMissionType(scenario, ev.mission_type)
              why == FirstInsufficient(pools[NewEntry.unit], mt, ev.time)
          IN  /\ Len(results'.timeline) = Len(results.timeline) + 1
              /\ NewEntry.unit \in DOMAIN pools
              /\ NewEntry.type = "rejection" <=> why # "none"
              /\ NewEntry.type = "rejection" =>
                    /\ NewEntry.reason = why
                    /\ NewEntry.time = ev.time
                    /\ results'.missions.rejected = results.missions.rejected + 1
                    /\ results'.missions.started = results.missions.started
                    /\ \A r \in ReasonCounters :
                          results'.rejections[r] =
                              results.rejections[r] + (IF r = why THEN 1 ELSE 0) ]_vars

LastEntry == results.timeline[Len(results.timeline)]

\* the last event was rejected for a payload while the unit's only aircraft
\* was held as well
C23_Witness ==
    /\ pc = "loop"
    /\ idx > 0
    /\ results.timeline # << >>
    /\ LastEntry.type = "rejection"
    /\ LastEntry.reason = "payload"
    /\ LastEntry.time = events[idx].time
    /\ LET up == pools[LastEntry.unit]
       IN  /\ up.aircraft.total > 0
           /\ Avail(up.aircraft, LastEntry.time) < 1
           /\ \E t \in DOMAIN up.payloads :
                 up.payloads[t].total > 0 /\ Avail(up.payloads[t], LastEntry.time) < 1

\* the last event was rejected for a payload type the unit had no pool for
C23_WitnessNoPool ==
    /\ pc = "loop"
    /\ results.timeline # << >>
    /\ LastEntry.type = "rejection"
    /\ LastEntry.reason = "payload"
    /\ Get(initial.payload_by_unit, LastEntry.unit, EmptyMap) = EmptyMap
    /\ pools[LastEntry.unit].aircraft.total > 0

\* entries of `held` that are <= time
Expired(held, time) == Cardinality({ k \in DOMAIN held : held[k] <= time })

\* C24 as stated: an event rejected by the admission check leaves every pool
\* of the picked unit as it was (held list, busy time, allocations, denials,
\* last-cleanup time), the set of its payload pools and its mission-finish
\* list.
C24_NoMutationAsStated ==
    [][ (TakesKnownEvent /\ NewEntry.type = "rejection") =>
            pools'[NewEntry.unit] = pools[NewEntry.unit] ]_vars

\* pool q is pool p after at most a cleanup at `time`: the counters are
\* those of p, the held list is p's without entries <= time (all of them or
\* none), the last-cleanup time is p's or `time`
OnlyCleaned(p, q, time) ==
    /\ q.total = p.total
    /\ q.busy_time = p.busy_time
    /\ q.allocations = p.allocations
    /\ q.denials = p.denials
    /\ \/ q = p
       \/ /\ time > p.last_cleanup_time
          /\ q.last_cleanup_time = time
          /\ q.held = SubSeq(p.held, Expired(p.held, time) + 1, Len(p.held))

\* C24 amended: an event rejected by the admission check acquires nothing.
\* The pools of the other units are unchanged; in the picked unit the
\* mission-finish list and every pool's busy time, allocations and denials
\* are unchanged, a checked pool may have lost its release times <= the
\* event time and have the event time as last-cleanup time, and the only
\* payload pools added are pools of capacity 0 for required payload types.
C24_RejectionAcquiresNothing ==
    [][ (TakesKnownEvent /\ NewEntry.type = "rejection") =>
          LET u   == NewEntry.unit
              t   == events[idx + 1].time
              mt  == LookupMissionType(scenario, events[idx + 1].mission_type)
              old == pools[u]
              new == pools'[u]
          IN  /\ \A v \in (DOMAIN pools) \ {u} : pools'[v] = pools[v]
              /\ DOMAIN pools' = DOMAIN pools
              /\ new.mission_finishes = old.mission_finishes
              /\ OnlyCleaned(old.aircraft, new.aircraft, t)
              /\ OnlyCleaned(old.pilot, new.pilot, t)
              /\ OnlyCleaned(old.so, new.so, t)
              /\ DOMAIN old.payloads \subseteq DOMAIN new.payloads
              /\ DOMAIN new.payloads \subseteq
                    (DOMAIN old.payloads) \cup SeqRange(mt.required_payload_types)
              /\ \A p \in DOMAIN new.payloads :
                    OnlyCleaned(Get(old.payloads, p, ResourcePoolNew(0)),
                                new.payloads[p], t) ]_vars

\* the last event, the first of its time, was rejected after the check of
\* a payload pool dropped an expired release time
C24_Witness ==
    /\ pc = "loop"
    /\ results.timeline # << >>
    /\ LastEntry.type = "rejection"
    /\ LastEntry.time = events[idx].time
    /\ \A k \in 1..(idx - 1) : events[k].time < LastEntry.time
    /\ LET up == pools[LastEntry.unit]
       IN  \E t \in DOMAIN up.payloads :
              /\ up.payloads[t].last_cleanup_time = LastEntry.time
              /\ up.payloads[t].allocations > Len(up.payloads[t].held)

(***************************************************************************)
(* Events of an unknown mission type.                                      *)
(***************************************************************************)
TakesUnknownEvent ==
    /\ pc = "loop" /\ pc' = "loop"
    /\ idx' = idx + 1
    /\ events[idx + 1].mission_type \notin MissionTypeNames(scenario)

\* C25: an event whose mission type is not among the scenario's mission
\* types adds 1 to missions.requested and changes nothing else: started,
\* rejected, completed, the rejection reasons, by_type, the timeline and
\* every pool of every unit stay as they were.
C25_UnknownMissionType ==
    [][ TakesUnknownEvent =>
          /\ results' = [results EXCEPT !.missions.requested = @ + 1]
          /\ pools' = pools ]_vars

\* an event of an unknown type taken after a mission was started and while
\* its resources are held
C25_Witness ==
    /\ pc = "loop"
    /\ idx > 1
    /\ events[idx].mission_type \notin MissionTypeNames(scenario)
    /\ results.missions.requested = idx
    /\ results.missions.started > 0
    /\ results.missions.started + results.missions.rejected = idx - 1
    /\ \E u \in DOMAIN pools : pools[u].aircraft.held # << >>

(***************************************************************************)
(* A lone ResourcePool called the way the event loop calls it: the times   *)
(* of the calls never decrease.  `accepted` keeps the acquisitions that    *)
(* returned true.                                                          *)
(***************************************************************************)
\* the time of the last call (0 before the first)
LastTime == IF ret.op = "new" THEN 0 ELSE ret.time

MonoAvailableAt ==
    /\ pc = "pool"
    /\ ops < PoolMaxOps
    /\ \E time \in LastTime..PoolMaxTime :
          LET a == available_at(pool, time)
          IN  /\ pool' = a.pool
              /\ ret' = [ op |-> "available_at", time |-> time, value |-> a.avail ]
    /\ ops' = ops + 1
    /\ UNCHANGED << pc, accepted, desVars, run2Vars, statVars, mcVars, pickVars >>

MonoTryAcquire ==
    /\ pc = "pool"
    /\ ops < PoolMaxOps
    /\ \E time \in LastTime..PoolMaxTime, duration_hours \in 0..PoolMaxDur,
          count \in 0..PoolMaxCount :
          LET a == try_acquire(pool, time, duration_hours, count)
          IN  /\ pool' = a.pool
              /\ ret' = [ op |-> "try_acquire", time |-> time, duration |-> duration_hours,
                          count |-> count, value |-> a.ok ]
              /\ accepted' = IF a.ok
                             THEN Append(accepted, [ time |-> time, duration |-> duration_hours,
                                                     count |-> count ])
                             ELSE accepted
    /\ ops' = ops + 1
    /\ UNCHANGED << pc, desVars, run2Vars, statVars, mcVars, pickVars >>

NextMono == MonoAvailableAt \/ MonoTryAcquire

SpecMono == InitPool /\ [][NextMono]_vars

\* the units of the pool held at `time` by the reference pool, which drops
\* every release time <= time at every call: those of accepted acquisitions
\* whose release time is > time
RECURSIVE HeldAfter(_, _)
HeldAfter(acc, time) ==
    IF acc = << >> THEN 0
    ELSE (IF Head(acc).time + Head(acc).duration > time THEN Head(acc).count ELSE 0)
         + HeldAfter(Tail(acc), time)

\* C26: under calls with nondecreasing times, calls at one time and
\* acquisitions of duration 0 included, available_at(t) returns the
\* capacity minus the units of accepted acquisitions whose release time is
\* > t, which is what the reference pool without the skip returns.
C26_MatchesReference ==
    (pc = "pool" /\ ret.op = "available_at") =>
        ret.value = pool.total - HeldAfter(accepted, ret.time)

\* the same with every accepted acquisition of a duration > 0
C26_PositiveDurations ==
    (pc = "pool" /\ ret.op = "available_at"
       /\ \A k \in DOMAIN accepted : accepted[k].duration > 0 \/ accepted[k].count = 0) =>
        ret.value = pool.total - HeldAfter(accepted, ret.time)

(***************************************************************************)
(* The held list against the last-cleanup time, and try_acquire, under     *)
(* calls with any times in any order.                                      *)
(***************************************************************************)
AboveLastCleanup(p) == \A k \in DOMAIN p.held : p.held[k] > p.last_cleanup_time

CleaningCall ==
    /\ pc = "pool"
    /\ ops' = ops + 1
    /\ ret'.op = "available_at"
    /\ ret'.time > pool.last_cleanup_time

Count(s, x) == Cardinality({ k \in DOMAIN s : s[k] = x })

TryAcquireStep == pc = "pool" /\ ops' = ops + 1 /\ ret'.op = "try_acquire"

\* C28: try_acquire(t, d, k) with available_at(t) >= k adds k entries t + d
\* to the held list (as available_at(t) leaves it), d k to the busy time, k
\* to the allocations, leaves the denials and returns true; otherwise it
\* adds k to the denials, leaves busy time, allocations and the cleaned-up
\* held list and returns false.  So the busy time is the sum of d k over the
\* accepted calls (it starts at 0 and only accepted calls add to it), and
\* allocations and denials never decrease.
C28_TryAcquire ==
    /\ [](pc = "pool" /\ ops = 0 =>
             pool.busy_time = 0 /\ pool.allocations = 0 /\ pool.denials = 0
             /\ pool.held = << >>)
    /\ [][ TryAcquireStep =>
             LET t == ret'.time
                 d == ret'.duration
                 k == ret'.count
                 q == available_at(pool, t).pool
                 values == SeqRange(q.held) \cup SeqRange(pool'.held) \cup {t + d}
             IN  /\ ret'.value <=> Avail(pool, t) >= k
                 /\ pool'.total = pool.total
                 /\ pool'.last_cleanup_time = q.last_cleanup_time
                 /\ ret'.value =>
                       /\ \A x \in values :
                             Count(pool'.held, x)
                                = Count(q.held, x) + (IF x = t + d THEN k ELSE 0)
                       /\ pool'.busy_time = pool.busy_time + d * k
                       /\ pool'.allocations = pool.allocations + k
                       /\ pool'.denials = pool.denials
                 /\ ~ret'.value =>
                       /\ pool'.held = q.held
                       /\ pool'.busy_time = pool.busy_time
                       /\ pool'.allocations = pool.allocations
                       /\ pool'.denials = pool.denials + k ]_vars
    /\ [][ pc = "pool" =>
             /\ pool'.allocations >= pool.allocations
             /\ pool'.denials >= pool.denials
             /\ (~TryAcquireStep => pool'.busy_time = pool.busy_time) ]_vars

\* a denied try_acquire after an accepted one of two units
C28_Witness ==
    /\ pc = "pool"
    /\ ret.op = "try_acquire"
    /\ ~ret.value
    /\ ret.count = 2
    /\ pool.denials = 2
    /\ pool.allocations = 2
    /\ pool.busy_time = 4
    /\ Len(pool.held) = 2

\* the busy time is the sum of d k over the accepted acquisitions
RECURSIVE SumBusy(_)
SumBusy(acc) ==
    IF acc = << >> THEN 0
    ELSE Head(acc).duration * Head(acc).count + SumBusy(Tail(acc))

BusyIsSumOfAccepted == pc = "pool" => pool.busy_time = SumBusy(accepted)

(***************************************************************************)
(* Unit selection alone: PickUnit on any split, any order of the unit      *)
(* list and any draw.  A weight is an f64 the code does not validate; the  *)
(* model takes the weights -1..MaxWeight.                                  *)
(***************************************************************************)
MaxWeight == 2

SelUnits == { "A", "B", "C" }

\* the maps from some of the units (and possibly a name that is no unit)
\* to a weight
Splits ==
    UNION { [S -> (-1)..MaxWeight] : S \in (SUBSET (SelUnits \cup {"Z"})) \ {{}} }

\* a scenario with this mission_split (only unit_policy is read)
SplitScenario(split) == [ unit_policy |-> Some([ mission_split |-> Some(split) ]) ]

InitPick ==
    /\ pc = "pick"
    /\ draw \in [ split : Splits,
                  ulist : Perms(SelUnits) \cup Perms({"A", "B"}),
                  u : 0..(UnitDrawDen - 1) ]
    /\ selected = None
    /\ NoDes
    /\ NoRun2
    /\ NoPool
    /\ NoStats
    /\ NoMC

\* the weighted branch of "Pick unit for this mission"
Pick ==
    /\ pc = "pick"
    /\ selected' = PickUnit(SplitScenario(draw.split), draw.ulist, 0, draw.u)
    /\ pc' = "picked"
    /\ UNCHANGED << draw, desVars, run2Vars, poolVars, statVars, mcVars >>

NextPick == Pick

SpecPick == InitPick /\ [][NextPick]_vars

Weight(split, unit) == IF unit \in DOMAIN split THEN split[unit] ELSE 0

\* the sum of the weights of the first k units of the list
SumWeights(split, ulist, k) ==
    SumSeq([j \in 1..k |-> Weight(split, ulist[j])])

\* the positions whose cumulative weight is >= U total, U = u / UnitDrawDen
Matches(split, ulist, u) ==
    { k \in DOMAIN ulist :
        SumWeights(split, ulist, k) * UnitDrawDen
           >= u * SumWeights(split, ulist, Len(ulist)) }

NoNegativeWeight == \A x \in DOMAIN draw.split : draw.split[x] >= 0

\* C29: with a split of weights >= 0, the unit picked is the first of the
\* list whose cumulative weight is >= U total; a unit of weight 0 (one the
\* split does not name, too) is picked only as the fallback: only if it is
\* the last of the list and no cumulative weight is >= U total.
C29_WeightedSelection ==
    (pc = "picked" /\ NoNegativeWeight) =>
        LET m == Matches(draw.split, draw.ulist, draw.u)
        IN  /\ m # {} => selected = draw.ulist[CHOOSE k \in m : \A j \in m : k <= j]
            /\ Weight(draw.split, selected) = 0 =>
                  (m = {} /\ selected = draw.ulist[Len(draw.ulist)])

\* the first half alone, with the fallback
C29_FirstMatchOrLast ==
    pc = "picked" =>
        LET m == Matches(draw.split, draw.ulist, draw.u)
        IN  selected = IF m # {} THEN draw.ulist[CHOOSE k \in m : \A j \in m : k <= j]
                       ELSE draw.ulist[Len(draw.ulist)]

\* with weights >= 0 a unit of weight 0 is picked exactly when it is the
\* first of the list and U total = 0 (U = 0, or every weight is 0); the
\* fallback is then never taken
C29_ZeroWeightPicks ==
    (pc = "picked" /\ Weight(draw.split, selected) = 0 /\ NoNegativeWeight) =>
        /\ draw.u * SumWeights(draw.split, draw.ulist, Len(draw.ulist)) = 0
        /\ selected = draw.ulist[1]

(***************************************************************************)
(* Round-robin unit selection in the event loop: runs of scenarios without *)
(* a mission_split or with an empty one.                                   *)
(***************************************************************************)
\* Known and unknown mission types in turn.
Scenario9 ==
    [ horizon_hours |-> 4,
      demand |-> << DetDemand("ferry", 2, NoneOpt), DetDemand("ghost", 2, Some(1)) >>,
      mission_types |-> << Ferry(Det(1)) >>,
      process_times |-> NoneOpt, unit_policy |-> NoneOpt ]

\* Five events at t = 0..4, no mission_split.
Scenario10 ==
    [ horizon_hours |-> 5,
      demand |-> << DetDemand("cargo", 1, NoneOpt) >>,
      mission_types |-> << Cargo(Det(1)) >>,
      process_times |-> NoneOpt,
      unit_policy |-> Some([ mission_split |-> NoneOpt ]) ]

RoundRobinScenarios == { Scenario2, Scenario3, Scenario9, Scenario10 }

InitRoundRobin ==
    /\ pc = "start"
    /\ scenario \in RoundRobinScenarios
    /\ options \in OptionsSet
    /\ initial = NoneOpt
    /\ events = << >>
    /\ idx = 0
    /\ unit_list = << >>
    /\ pools = EmptyMap
    /\ results = NoneOpt
    /\ NoRun2
    /\ NoPool
    /\ NoStats
    /\ NoMC
    /\ NoPick

SpecRoundRobin == InitRoundRobin /\ [][Next]_vars

\* the events taken so far that have a known mission type, as their
\* 1-based positions in the event list, in order
KnownTaken ==
    LET known == { j \in 1..idx : events[j].mission_type \in MissionTypeNames(scenario) }
    IN  [k \in 1..Cardinality(known) |->
            CHOOSE j \in known : Cardinality({ x \in known : x <= j }) = k]

\* the number of events assigned to unit u: each makes one timeline entry
Assigned(u) == Cardinality({ k \in DOMAIN results.timeline : results.timeline[k].unit = u })

Balanced == \A u, v \in SeqRange(unit_list) : Assigned(u) - Assigned(v) <= 1

\* C30 as stated: without mission_split (or with an empty one) the numbers
\* of events assigned to any two units differ by at most 1 over any run.
C30_BalancedAsStated ==
    (pc = "done" /\ RoundRobin(scenario)) => Balanced

\* C30 amended: without mission_split (or with an empty one) the event at
\* 0-based index i of the event list, if its mission type is known, is
\* assigned to unit_list[i mod n]; an event of an unknown type takes an
\* index and is assigned to no unit.  The numbers of events assigned to any
\* two units differ by at most 1 while no event of an unknown type was taken.
C30_RoundRobin ==
    (Running /\ RoundRobin(scenario)) =>
        /\ Len(results.timeline) = Len(KnownTaken)
        /\ \A k \in DOMAIN results.timeline :
              /\ EntryTime(results.timeline[k]) = events[KnownTaken[k]].time
              /\ results.timeline[k].mission_type = events[KnownTaken[k]].mission_type
              /\ results.timeline[k].unit
                    = unit_list[((KnownTaken[k] - 1) % Len(unit_list)) + 1]
        /\ UnknownProcessed = 0 => Balanced

\* five events over two units, three for the first and two for the second
C30_Witness ==
    /\ pc = "done"
    /\ RoundRobin(scenario)
    /\ Len(unit_list) = 2
    /\ Len(events) = 5
    /\ UnknownProcessed = 0
    /\ Assigned(unit_list[1]) = 3
    /\ Assigned(unit_list[2]) = 2

\* an event of an unknown type between two events that go to the same unit
C30_WitnessSkew ==
    /\ pc = "done"
    /\ RoundRobin(scenario)
    /\ Len(unit_list) = 2
    /\ UnknownProcessed = 2
    /\ Assigned(unit_list[1]) = 2
    /\ Assigned(unit_list[2]) = 0

(***************************************************************************)
(* The folds of the workers into the shared StreamingAggregator.           *)
(***************************************************************************)
\* Poisson arrivals of one mission type on one aircraft: the counters differ
\* from one iteration to the next, and an iteration can have no request.
ScenarioFold ==
    [ horizon_hours |-> 1,
      demand |-> << PoissonDemand("cargo", Some(1)) >>,
      mission_types |-> << Cargo(Det(1)) >>,
      process_times |-> NoneOpt, unit_policy |-> NoneOpt ]

InitFold ==
    /\ pc = "mc_start"
    /\ scenario = ScenarioFold
    /\ mc_options \in [ iterations : { Some(MaxIterations) },
                        keep_iterations : { NoneOpt, Some(TRUE) },
                        state : { NoneOpt, Some(Snapshot(<< << "A", 1, 1, 0, << >> >> >>)) },
                        overrides : { NoneOpt } ]
    /\ options = NoneOpt
    /\ hasher \in Hashers(MaxIterations)
    /\ iterations = 0 /\ keep_iterations = FALSE
    /\ remaining = {} /\ workers = EmptyMap /\ locks = EmptyMap
    /\ aggregator = NoneOpt /\ first_result = NoneOpt /\ stored_results = << >>
    /\ task_errors = {} /\ mc_out = NoneOpt
    /\ initial = NoneOpt /\ events = << >> /\ idx = 0 /\ unit_list = << >>
    /\ pools = EmptyMap /\ results = NoneOpt
    /\ fed = << >> /\ stats = NoneOpt /\ stat_out = NoneOpt
    /\ NoRun2
    /\ NoPool
    /\ NoPick

SpecFold == InitFold /\ [][NextMC]_vars

MissionMetrics == { "requested", "started", "completed", "rejected" }

RejectionMetrics == { "aircraft", "pilot", "so", "payload" }

TopMetrics ==
    { << "missions", k >> : k \in MissionMetrics } \cup
    { << "rejections", k >> : k \in RejectionMetrics }

\* the value process_iteration feeds to the metric m from one Results
MetricValue(result, m) == AsF64(result[m[1]][m[2]])

WelfordOf(agg, m) == Get(agg[m[1]], m[2], StreamingStatisticsNew).welford

\* the workers that hold a Results not yet folded
BeforeFold == { w \in DOMAIN workers :
                  workers[w].pc \in { "des", "want_first", "in_first", "want_agg", "in_agg" } }

InAggregator == { w \in DOMAIN workers : workers[w].pc = "in_agg" }

MinOf(S) == CHOOSE x \in S : \A y \in S : x <= y

MaxOf(S) == CHOOSE x \in S : \A y \in S : x >= y

\* at most one worker is inside the aggregator's critical section, and it is
\* the owner of the mutex; the items the workers hold are distinct and taken
\* from the iterator
FoldsExcludeEachOther ==
    pc = "mc_run" =>
        /\ Cardinality(InAggregator) <= 1
        /\ \A w \in InAggregator : locks["aggregator"] = w
        /\ \A w1, w2 \in Workers :
              (w1 # w2 /\ workers[w1].pc # "idle" /\ workers[w2].pc # "idle")
                  => workers[w1].i # workers[w2].i
        /\ \A w \in Workers : workers[w].pc # "idle" => workers[w].i \notin remaining

\* while no task has failed every item is still to be handed out, or held
\* unfolded by a worker, or folded
FoldsConserved ==
    (pc = "mc_run" /\ task_errors = {}) =>
        \A m \in TopMetrics :
            WelfordOf(aggregator, m).count + Cardinality(remaining) + Cardinality(BeforeFold)
                = iterations

\* the aggregator changes only in the step in which the owner of its mutex
\* leaves the critical section, and that step is one WelfordAccumulator
\* update of every metric with the value of the worker's own Results
FoldStep ==
    pc = "mc_run" =>
        IF \E w \in InAggregator : workers'[w].pc # "in_agg"
        THEN \A w \in InAggregator : \A m \in TopMetrics :
                LET a == WelfordOf(aggregator, m)
                    b == WelfordOf(aggregator', m)
                    v == MetricValue(Unwrap(workers[w].result), m)
                IN  /\ b.count = a.count + 1
                    /\ b.min = Min2(a.min, v)
                    /\ b.max = IF v > a.max THEN v ELSE a.max
        ELSE aggregator' = aggregator

\* at the end of a successful run every metric has count N and is reported,
\* with min <= max; when the iterations were kept, min and max are the
\* smallest and the largest value of the kept Results
FoldedAtReturn ==
    pc = "mc_ok" =>
        /\ iterations = UnwrapOr(mc_options.iterations, MaxIterations)
        /\ \A m \in TopMetrics :
              LET a == WelfordOf(aggregator, m)
              IN  /\ a.count = iterations
                  /\ m[2] \in DOMAIN mc_out[m[1]]
                  /\ mc_out[m[1]][m[2]].min = a.min
                  /\ mc_out[m[1]][m[2]].max = a.max
                  /\ keep_iterations =>
                        LET vals == { MetricValue(stored_results[k], m) :
                                        k \in DOMAIN stored_results }
                        IN  /\ Len(stored_results) = iterations
                            /\ a.min = MinOf(vals)
                            /\ a.max = MaxOf(vals)

\* C31: in a successful run of N iterations, under every interleaving of the
\* workers, each iteration's Results is folded into the aggregator exactly
\* once and inside the mutex: every missions.* and rejections.* metric ends
\* with count N and with the smallest and largest folded value as min and max.
C31_FoldedOnce ==
    /\ [](FoldsExcludeEachOther /\ FoldsConserved /\ FoldedAtReturn)
    /\ [][FoldStep]_vars

\* a successful run that kept its iterations, two of which differ in their
\* number of completed missions
C31_Witness ==
    /\ pc = "mc_ok"
    /\ iterations = MaxIterations
    /\ keep_iterations
    /\ WelfordOf(aggregator, << "missions", "completed" >>).count = MaxIterations
    /\ mc_out.missions["completed"].min < mc_out.missions["completed"].max
    /\ mc_out.rejections["aircraft"].min = 0

(***************************************************************************)
(* ReservoirSampler::update.                                               *)
(***************************************************************************)
\* C32: after n updates of a sampler of capacity R the sample holds exactly
\* min(n, R) values, each of them one of the n values fed in; while n <= R
\* the sample is the multiset of the values fed in (in the order they came);
\* the sample never holds more than R values.
C32_Reservoir ==
    pc = "stats" =>
        LET r == stats.reservoir
            n == Len(fed)
        IN  /\ r.capacity = ReservoirCapacity
            /\ r.count = n
            /\ Len(r.sample) = Min2(n, r.capacity)
            /\ Len(r.sample) <= r.capacity
            /\ SeqRange(r.sample) \subseteq SeqRange(fed)
            /\ n <= r.capacity =>
                  /\ \A x \in StatValues : Count(r.sample, x) = Count(fed, x)
                  /\ r.sample = fed

\* more values than the capacity, and the last of them has replaced a value
\* of the full reservoir
C32_Witness ==
    /\ pc = "stats"
    /\ Len(fed) = MaxStream
    /\ MaxStream > ReservoirCapacity
    /\ Len(stats.reservoir.sample) = ReservoirCapacity
    /\ stats.reservoir.sample # SubSeq(fed, 1, ReservoirCapacity)
    /\ fed[MaxStream] \in SeqRange(stats.reservoir.sample)
    /\ \A k \in 1..(MaxStream - 1) : fed[k] # fed[MaxStream]

(***************************************************************************)
(* The by_type counters against the totals.                                *)
(***************************************************************************)
RECURSIVE SumByType(_, _)
SumByType(by_type, field) ==
    IF DOMAIN by_type = {} THEN 0
    ELSE LET n == CHOOSE x \in DOMAIN by_type : TRUE
         IN  by_type[n][field] + SumByType([x \in (DOMAIN by_type) \ {n} |-> by_type[x]], field)

PerTypeBalanced(by_type) ==
    \A T \in DOMAIN by_type :
        /\ by_type[T].requested = by_type[T].started + by_type[T].rejected
        /\ by_type[T].completed <= by_type[T].started

\* C33: at the end of every run, for every mission type with a by_type
\* entry requested = started + rejected and completed <= started, and the
\* by_type started, rejected and completed counters summed over the types
\* are missions.started, missions.rejected and missions.completed.
C33_ByTypeAccounting ==
    pc = "done" =>
        /\ PerTypeBalanced(results.by_type)
        /\ SumByType(results.by_type, "started") = results.missions.started
        /\ SumByType(results.by_type, "rejected") = results.missions.rejected
        /\ SumByType(results.by_type, "completed") = results.missions.completed

\* what holds of the by_type counters in every run: all of C33 but the sum
\* of rejected, which is below missions.rejected by the number of failed
\* acquisitions
C33_ButRejected ==
    pc = "done" =>
        /\ PerTypeBalanced(results.by_type)
        /\ SumByType(results.by_type, "started") = results.missions.started
        /\ SumByType(results.by_type, "completed") = results.missions.completed
        /\ SumByType(results.by_type, "rejected") <= results.missions.rejected

\* and all of it in the runs without a repeated required payload type
C33_NoRepeatedPayload ==
    (pc = "done" /\ \A k \in DOMAIN scenario.mission_types :
        LET req == scenario.mission_types[k].required_payload_types
        IN  Cardinality(SeqRange(req)) = Len(req))
    => SumByType(results.by_type, "rejected") = results.missions.rejected

(***************************************************************************)
(* The timeline against the counters and the demand events.                *)
(***************************************************************************)
RejectionEntries(res) == {k \in DOMAIN res.timeline : res.timeline[k].type = "rejection"}

\* processed events whose mission type is in the scenario
KnownProcessed == idx - UnknownProcessed

TimelineInTimeOrder(res) ==
    \A j, k \in DOMAIN res.timeline :
        j < k => EntryTime(res.timeline[j]) <= EntryTime(res.timeline[k])

\* C34: in every run the timeline has missions.started Mission entries and
\* missions.rejected Rejection entries, one entry for each demand event
\* with a known mission type, in event-time order.
C34_TimelineCounts ==
    Running =>
        /\ Cardinality(MissionEntries(results)) = results.missions.started
        /\ Cardinality(RejectionEntries(results)) = results.missions.rejected
        /\ Len(results.timeline) = KnownProcessed
        /\ TimelineInTimeOrder(results)

\* what holds of the timeline in every run: all of C34 but the number of
\* Rejection entries, which is below missions.rejected by the number of
\* failed acquisitions
C34_ButRejected ==
    Running =>
        /\ Cardinality(MissionEntries(results)) = results.missions.started
        /\ Cardinality(RejectionEntries(results)) <= results.missions.rejected
        /\ Cardinality(RejectionEntries(results)) = SumByType(results.by_type, "rejected")
        /\ Len(results.timeline) = KnownProcessed
        /\ TimelineInTimeOrder(results)

(***************************************************************************)
(* The missions in progress on a unit against the unit's totals.           *)
(***************************************************************************)
\* the missions started on unit u that hold their resources at time t
InProgress(u, t) ==
    { k \in MissionEntries(results) :
        /\ results.timeline[k].unit = u
        /\ results.timeline[k].demand_time <= t
        /\ t < results.timeline[k].finish_time }

TypeOfEntry(k) == LookupMissionType(scenario, results.timeline[k].mission_type)

\* what the mission of timeline entry k needs of a resource: "aircraft",
\* "pilot", "so", or a payload type
NeedOf(k, resource) ==
    CASE resource = "aircraft" -> 1
      [] resource = "pilot"    -> NeedPilot(TypeOfEntry(k))
      [] resource = "so"       -> NeedSo(TypeOfEntry(k))
      [] OTHER                 -> Count(TypeOfEntry(k).required_payload_types, resource)

RECURSIVE SumNeed(_, _)
SumNeed(K, resource) ==
    IF K = {} THEN 0
    ELSE LET k == CHOOSE x \in K : TRUE
         IN  NeedOf(k, resource) + SumNeed(K \ {k}, resource)

\* the unit's total of a resource: the capacity its pool was built with
TotalOf(u, resource) ==
    CASE resource = "aircraft" -> pools[u].aircraft.total
      [] resource = "pilot"    -> pools[u].pilot.total
      [] resource = "so"       -> pools[u].so.total
      [] OTHER                 -> Get(pools[u].payloads, resource, ResourcePoolNew(0)).total

PayloadTypesInPlay ==
    UNION { SeqRange(scenario.mission_types[k].required_payload_types) :
              k \in DOMAIN scenario.mission_types }

WithinTotal(u, t, resource) == SumNeed(InProgress(u, t), resource) <= TotalOf(u, resource)

EventTimes == { events[j].time : j \in 1..idx }

\* C35: at every event time and for every unit, the missions in progress on
\* the unit need no more aircraft, pilots, SOs and payloads of each type
\* than the unit has.
C35_WithinTotals ==
    Running =>
        \A t \in EventTimes : \A u \in DOMAIN pools :
            \A resource \in { "aircraft", "pilot", "so" } \cup PayloadTypesInPlay :
                WithinTotal(u, t, resource)

\* aircraft, pilots and SOs are never over-committed
C35_AircraftAndCrew ==
    Running =>
        \A t \in EventTimes : \A u \in DOMAIN pools :
            \A resource \in { "aircraft", "pilot", "so" } : WithinTotal(u, t, resource)

\* nor are the payloads in the runs whose mission types repeat no payload type
C35_NoRepeatedPayload ==
    (Running /\ \A k \in DOMAIN scenario.mission_types :
        LET req == scenario.mission_types[k].required_payload_types
        IN  Cardinality(SeqRange(req)) = Len(req))
    => \A t \in EventTimes : \A u \in DOMAIN pools :
          \A resource \in PayloadTypesInPlay : WithinTotal(u, t, resource)

(***************************************************************************)
(* One event touches one unit.                                             *)
(***************************************************************************)
\* C36: the step that processes an event of a known mission type makes one
\* timeline entry, for the unit the pick assigns the event to; the pools and
\* the mission-finish list of every other unit are unchanged; the event is
\* rejected by the admission check exactly when that unit fails one of the
\* checks, whatever the other units have free; the earlier entries stay as
\* they are and a started mission starts at the event's own time (no
\* fallback to another unit, no queue, no retry).
C36_OneUnit ==
    [][ TakesKnownEvent =>
          LET ev == events[idx + 1]
              mt == LookupMissionType(scenario, ev.mission_type)
              u  == NewEntry.unit
          IN  /\ Len(results'.timeline) = Len(results.timeline) + 1
              /\ SubSeq(results'.timeline, 1, Len(results.timeline)) = results.timeline
              /\ \E d \in Draws(scenario, ev) : u = PickUnit(scenario, unit_list, idx, d.u)
              /\ RoundRobin(scenario) => u = unit_list[(idx % Len(unit_list)) + 1]
              /\ DOMAIN pools' = DOMAIN pools
              /\ \A v \in (DOMAIN pools) \ {u} : pools'[v] = pools[v]
              /\ NewEntry.type = "rejection" <=> FirstInsufficient(pools[u], mt, ev.time) # "none"
              /\ EntryTime(NewEntry) = ev.time
              /\ NewEntry.mission_type = ev.mission_type ]_vars

\* the last event was rejected on its unit for the aircraft while another
\* unit passed every check of the admission check at that time
C36_Witness ==
    /\ pc = "loop"
    /\ idx > 0
    /\ results.timeline # << >>
    /\ LastEntry.type = "rejection"
    /\ LastEntry.reason = "aircraft"
    /\ LastEntry.time = events[idx].time
    /\ LastEntry.mission_type = events[idx].mission_type
    /\ \A k \in 1..(idx - 1) : events[k].time < LastEntry.time
    /\ \E v \in (DOMAIN pools) \ {LastEntry.unit} :
          /\ FirstInsufficient(pools[v], LookupMissionType(scenario, LastEntry.mission_type),
                               LastEntry.time) = "none"
          /\ Avail(pools[v].aircraft, LastEntry.time) >= 1

(***************************************************************************)
(* The by_type statistics of a Monte Carlo run.                            *)
(***************************************************************************)
ByTypeWelford(T, k) == Get(aggregator.by_type[T], k, StreamingStatisticsNew).welford

\* C37: in a successful run of N iterations every by_type statistic is
\* aggregated over exactly N values, one per iteration (0 for an iteration
\* without a request for the mission type).
C37_ByTypeOverAllIterations ==
    pc = "mc_ok" =>
        \A T \in DOMAIN aggregator.by_type : \A k \in MissionMetrics :
            ByTypeWelford(T, k).count = iterations

\* the kept iterations whose Results have a by_type entry for T
WithEntry(T) == { j \in DOMAIN stored_results : T \in DOMAIN stored_results[j].by_type }

\* what holds instead: a by_type statistic is aggregated over the iterations
\* whose Results have an entry for the mission type, at least one and at
\* most N of them, and an iteration without a request contributes nothing
C37_OverIterationsWithEntry ==
    pc = "mc_ok" =>
        \A T \in DOMAIN aggregator.by_type : \A k \in MissionMetrics :
            /\ ByTypeWelford(T, k).count \in 1..iterations
            /\ T \in DOMAIN mc_out.by_type /\ k \in DOMAIN mc_out.by_type[T]
            /\ keep_iterations =>
                  /\ ByTypeWelford(T, k).count = Cardinality(WithEntry(T))
                  /\ ByTypeWelford(T, k).min =
                        MinOf({ AsF64(stored_results[j].by_type[T][k]) : j \in WithEntry(T) })
                  /\ k = "requested" => ByTypeWelford(T, k).min >= AsF64(1)

====
